---- MODULE Spec2Model ----
(***************************************************************************)
(* Staged-deletion lifecycle of MediaVault                                 *)
(* (backend/app/services/deletion_service.py and its routes).              *)
(*                                                                         *)
(* The state is the committed database (the is_deleted flag of every       *)
(* MediaFile, the pending_deletions table, the archive_operations log),    *)
(* the file system (which paths exist and whose bytes they hold) and the   *)
(* clock.  In Spec and SpecExpiry every HTTP request is one atomic step;   *)
(* the SQLAlchemy session of a request lives inside its step: batch-delete *)
(* threads one session through all the file ids of the request.  In        *)
(* SpecConcurrent two requests run in worker threads of their own and      *)
(* interleave at their database and file system calls.                     *)
(***************************************************************************)
EXTENDS Integers, Sequences, FiniteSets, TLC

\* ---------------------------------------------------------------- bounds
MaxBatch == 2          \* length of the file_ids list of a batch-delete request
MaxDay   == 31         \* last day of the clock

\* ------------------------------------------------------------- constants
RetentionDays == 30    \* settings.pending_deletion_retention_days
NULL == -1             \* a NULL timestamp column

\* the inventory: the ids of the MediaFile rows
Files == {1, 2}

\* the instants at which requests arrive
Days == {0, MaxDay}

\* the instants of the expiry sweep's specification: a row staged on day 0, 1
\* or 2 is 31, 30 or 29 days old on day 31
ExpiryDays == {0, 1, 2, MaxDay}

\* MediaFile.filename: the first two records carry the same file name
Filename(f) == IF f <= 2 THEN "a.mkv" ELSE "b.mkv"

\* MediaFile.media_type
MediaType(f) == IF f = 3 THEN "movie" ELSE "tv"

\* ------------------------------------------------------------------ paths
\* A path is root/sub/mtype/day/name with a numeric suffix n on the name.
\* root "share" is the NAS share (/volume1), "mount" the local mount of the
\* share (settings.nas_mount_path), "local" the local fallback directory.
\* sub = f is the directory of record f's media file, sub = 0 the
\* duplicates_before_purge directory.
Path(root, sub, mtype, day, name, n) ==
    [root |-> root, sub |-> sub, mtype |-> mtype, day |-> day, name |-> name, n |-> n]

NoPath == Path("none", 0, "", 0, "", 0)

\* MediaFile.filepath, the NAS-style path the scanner recorded
OrigPath(f) == Path("share", f, "", 0, Filename(f), 0)

\* the same path rewritten under the local mount of the share
MountMapped(p) == [p EXCEPT !.root = "mount"]

\* resolve_media_path: the first existing candidate among the path itself and,
\* for a path under the share root, the path rewritten under the mount
\* (dev_media_fallback_path is empty by default and adds no candidate)
ResolveMediaPath(p, d) ==
    IF p \in DOMAIN d THEN p
    ELSE IF p.root = "share" /\ MountMapped(p) \in DOMAIN d THEN MountMapped(p)
    ELSE NoPath

\* The path settings name directories: nas_temp_delete_path lies under the
\* share root ("share") or outside it ("other"); nas_mount_path is a
\* directory of its own ("mount"), the share root itself ("share") or not set
\* (""); local_temp_delete_path is a directory of its own ("local"), the
\* configured NAS directory, its image under the mount, or not set ("").  A
\* staging root is named after the directory it is.
DefaultPaths ==
    [nas_temp_delete_path |-> "share", nas_mount_path |-> "mount",
     local_temp_delete_path |-> "local"]

PathSettings ==
    [nas_temp_delete_path : {"share", "other"}, nas_mount_path : {"mount", "share", ""},
     local_temp_delete_path : {"local", "share", "mount", ""}]

\* the candidates list of temp_delete_roots before the repeats are dropped
TempDeleteCandidates(cfg) ==
    <<cfg.nas_temp_delete_path>>
       \o (IF cfg.nas_temp_delete_path = "share" /\ cfg.nas_mount_path # ""
           THEN <<cfg.nas_mount_path>> ELSE <<>>)
       \o (IF cfg.local_temp_delete_path # "" THEN <<cfg.local_temp_delete_path>> ELSE <<>>)

\* the loop over candidates with the `seen` set: every root once, at its
\* first place
RECURSIVE Unseen(_, _)
Unseen(candidates, seen) ==
    IF candidates = <<>> THEN <<>>
    ELSE IF Head(candidates) \in seen THEN Unseen(Tail(candidates), seen)
    ELSE <<Head(candidates)>> \o Unseen(Tail(candidates), seen \cup {Head(candidates)})

\* temp_delete_roots under the path settings cfg
TempDeleteRootsOf(cfg) == Unseen(TempDeleteCandidates(cfg), {})

\* temp_delete_roots: configured NAS path, the same under the mount, local fallback
TempDeleteRoots == TempDeleteRootsOf(DefaultPaths)

\* settings.temp_delete_subdirs_list
TempDeleteSubdirs == {"movies", "tv", "documentaries"}

\* _normalize_media_type
NormalizeMediaType(media_type) ==
    IF media_type \in TempDeleteSubdirs THEN media_type ELSE "other"

\* as PrepareStagingDirectoryIn, but the last usable root is taken
PrepareStagingDirectoryIn_Last(roots, media_type, date_dir, usable) ==
    LET ok == {i \in DOMAIN roots : roots[i] \in usable}
    IN IF ok = {} THEN NoPath
       ELSE LET last == CHOOSE i \in ok : \A j \in ok : i >= j
            IN Path(roots[last], 0, media_type, date_dir, "", 0)

\* the loop of _prepare_staging_directory over the roots that
\* temp_delete_roots yields
PrepareStagingDirectoryIn(roots, media_type, date_dir, usable) ==
    LET ok == {i \in DOMAIN roots : roots[i] \in usable}
    IN IF ok = {} THEN NoPath
       ELSE LET first == CHOOSE i \in ok : \A j \in ok : i <= j
            IN Path(roots[first], 0, media_type, date_dir, "", 0)

\* _prepare_staging_directory: the first root under which the directory can be
\* created; NoPath stands for the RuntimeError raised when no root can be used
PrepareStagingDirectory(media_type, date_dir, usable) ==
    PrepareStagingDirectoryIn(TempDeleteRoots, media_type, date_dir, usable)

\* _unique_temp_path: the file name, or the first name_<counter> that does not exist
RECURSIVE NextFreeCounter(_, _, _, _)
NextFreeCounter(staging_dir, name, counter, d) ==
    IF [staging_dir EXCEPT !.name = name, !.n = counter] \in DOMAIN d
    THEN NextFreeCounter(staging_dir, name, counter + 1, d)
    ELSE counter

UniqueTempPath(staging_dir, name, d) ==
    [staging_dir EXCEPT !.name = name, !.n = NextFreeCounter(staging_dir, name, 0, d)]

\* shutil.move: the bytes at src are afterwards at dst (an existing dst is replaced)
MoveFile(d, src, dst) ==
    [p \in (DOMAIN d \ {src}) \cup {dst} |-> IF p = dst THEN d[src] ELSE d[p]]

\* os.remove
RemoveFile(d, p) == [q \in DOMAIN d \ {p} |-> d[q]]

\* ------------------------------------------------------------------ state
VARIABLES
    is_deleted,   \* MediaFile.is_deleted, committed
    pending,      \* committed rows of pending_deletions
    ops,          \* the rows the last request appended to archive_operations
    disk,         \* existing paths |-> the record whose bytes the file holds
    now,          \* the clock, in days
    ret,          \* what the last request returned
    txn,          \* the requests in flight in the worker threads
    media,        \* the metadata columns of every MediaFile that detection reads
    settings,     \* the language settings of the deployment
    groups,       \* committed rows of duplicate_groups, each with its members
    det,          \* what the last duplicate detection did
    inp,          \* the argument of a call of QualityService
    out           \* what that call returned

\* the state of duplicate detection and of the quality service
dedup == <<media, settings, groups, det, inp, out>>

\* the state that the one-step deletion requests leave alone
ext == <<txn, dedup>>

vars == <<is_deleted, pending, ops, disk, now, ret, txn, media, settings, groups, det, inp, out>>

\* ArchiveOperation(media_file_id, operation_type, success)
ArchiveOp(f, type, success) == [file |-> f, type |-> type, success |-> success]

\* PendingDeletion(...) as built by stage_file_for_deletion
NewPending(f, t) ==
    [file |-> f, temp |-> NoPath, staged_at |-> t, approved |-> FALSE,
     approved_at |-> NULL, deleted_at |-> NULL, source_missing |-> FALSE]

\* a flushed PendingDeletion row
Row(obj, id) ==
    [id |-> id, file |-> obj.file, temp |-> obj.temp, staged_at |-> obj.staged_at,
     approved |-> obj.approved, approved_at |-> obj.approved_at,
     deleted_at |-> obj.deleted_at, source_missing |-> obj.source_missing]

\* MediaFile.pending_deletion as a fresh query sees it
PendingOf(rows, f) == {p \in rows : p.file = f}

\* the committed database and the file system, as a request sees and changes them
Store(flags, rows, d) == [is_deleted |-> flags, pending |-> rows, disk |-> d]

\* a session right after construction, commit or rollback: nothing pending,
\* every attribute expired
NewSession(flags) ==
    [new_pd |-> <<>>, new_ops |-> {}, mem |-> flags,
     cache |-> [f \in Files |-> "unloaded"]]

\* the outcome of a request: the operation, the record it was about, whether it
\* reported success, what happened, the count it returned (if any) and, for a
\* batch, the file ids of its staged list and those its failures list reports
\* with a failed move
Ret(op, f, ok, detail) ==
    [op |-> op, file |-> f, ok |-> ok, detail |-> detail, count |-> 0,
     staged |-> {}, failed_moves |-> {}]

\* the worker threads that serve requests at the same time (the routes are
\* plain `def` functions, which FastAPI runs in its thread pool)
Procs == {1, 2}

\* a request in a worker thread: the route it serves, where it stands, its
\* argument (file id or pending id), the ids of the rows its query loaded,
\* the rows it still has to handle, the row in hand, the paths it resolved,
\* the rows it marked for DELETE, whether its file operation raised, and what
\* it returned
Thread(op, pc, arg) ==
    [op |-> op, pc |-> pc, arg |-> arg, seen |-> {}, rows |-> {}, cur |-> {},
     src |-> NoPath, path |-> NoPath, deleted |-> {}, failed |-> FALSE,
     ok |-> FALSE, detail |-> ""]

Idle == Thread("idle", "idle", 0)

\* where the media files lie at the start: the file of record 1 under the
\* share, under the mount, or missing; every other file under the share
InitialLocations ==
    {loc \in [Files -> {"share", "mount", "none"}] : \A f \in Files \ {1} : loc[f] = "share"}

\* a scanned inventory with the media files at loc: no record flagged
\* deleted, nothing staged
StoreAt(loc) ==
    /\ is_deleted = [f \in Files |-> FALSE]
    /\ pending = {}
    /\ ops = {}
    /\ disk = [p \in {[OrigPath(f) EXCEPT !.root = loc[f]] : f \in {g \in Files : loc[g] # "none"}}
                 |-> p.sub]
    /\ now = 0
    /\ ret = Ret("init", 0, TRUE, "")
    /\ txn = [p \in Procs |-> Idle]

InitStore == \E loc \in InitialLocations : StoreAt(loc)

\* every media file under the share
AllOnShare == [f \in Files |-> "share"]

\* ---------------------------------------------------------- quality service
\* how many dicts the list given to rank_files holds at most
MaxMembers == 3

\* settings.quality_auto_approve_threshold, quality_manual_review_threshold
\* and fuzzy_match_threshold
AutoApproveThreshold == 50
ManualReviewThreshold == 20
FuzzyMatchThreshold == 85

\* a NULL text column
NullText == "<null>"

\* settings.require_english_audio and settings.trust_foreign_film_heuristic
DefaultSettings == [require_english_audio |-> TRUE, trust_foreign_film_heuristic |-> TRUE]

AllSettings == [require_english_audio : BOOLEAN, trust_foreign_film_heuristic : BOOLEAN]

\* str.lower() on the language codes and codec names of the model
Lower(lang) ==
    IF lang = "ENG" THEN "eng" ELSE IF lang = "HEVC" THEN "hevc" ELSE lang

\* code in [lang.lower() for lang in (langs or [])]; a NULL array column reads
\* as the empty list
HasLanguage(langs, code) == \E i \in DOMAIN langs : Lower(langs[i]) = code

\* as CheckLanguageConcern, but English audio counts whatever
\* require_english_audio says
CheckLanguageConcern_AudioAlways(file_meta, cfg) ==
    IF \/ HasLanguage(file_meta.audio_languages, "eng")
       \/ cfg.require_english_audio /\ Lower(file_meta.dominant_audio_language) = "eng"
    THEN [concern |-> TRUE, reason |-> "english_audio"]
    ELSE IF /\ cfg.trust_foreign_film_heuristic
            /\ ~HasLanguage(file_meta.audio_languages, "eng")
            /\ HasLanguage(file_meta.subtitle_languages, "eng")
    THEN [concern |-> TRUE, reason |-> "foreign_film"]
    ELSE [concern |-> FALSE, reason |-> ""]

\* QualityService.check_language_concern
CheckLanguageConcern(file_meta, cfg) ==
    IF /\ cfg.require_english_audio
       /\ \/ HasLanguage(file_meta.audio_languages, "eng")
          \/ Lower(file_meta.dominant_audio_language) = "eng"
    THEN [concern |-> TRUE, reason |-> "english_audio"]
    ELSE IF /\ cfg.trust_foreign_film_heuristic
            /\ ~HasLanguage(file_meta.audio_languages, "eng")
            /\ HasLanguage(file_meta.subtitle_languages, "eng")
    THEN [concern |-> TRUE, reason |-> "foreign_film"]
    ELSE [concern |-> FALSE, reason |-> ""]

\* the codec points of calculate_quality_score
CodecScore(video_codec) ==
    IF video_codec \in {"hevc", "h265", "x265"} THEN 20
    ELSE IF video_codec \in {"avc", "h264", "x264"} THEN 15
    ELSE IF video_codec = "vp9" THEN 18
    ELSE IF video_codec = "av1" THEN 22
    ELSE 0

\* metadata.get(key, default): a dict is a function on the keys it has
Get(metadata, key, default) ==
    IF key \in DOMAIN metadata THEN metadata[key] ELSE default

\* min(a, b)
Min(a, b) == IF a <= b THEN a ELSE b

\* the resolution points of calculate_quality_score; `if height:` skips a
\* height of None and a height of 0 alike, so None is read as 0
ResolutionScore(height) ==
    IF height = 0 THEN 0
    ELSE IF height >= 2160 THEN 100
    ELSE IF height >= 1080 THEN 75
    ELSE IF height >= 720 THEN 50
    ELSE IF height >= 480 THEN 25
    ELSE 10

\* ideal_bitrate of _calculate_bitrate_score
IdealBitrate(height) ==
    IF height >= 2160 THEN 50000
    ELSE IF height >= 1080 THEN 10000
    ELSE IF height >= 720 THEN 5000
    ELSE IF height >= 480 THEN 2500
    ELSE 1000

\* int(x) for the quotient x = n / d with d > 0: the digits before the
\* point, so a negative quotient is rounded towards zero
IntOfQuotient(n, d) == IF n >= 0 THEN n \div d ELSE 0 - ((0 - n) \div d)

\* as CalculateBitrateScore, but the ratio is rounded down
CalculateBitrateScore_Floor(bitrate, height) ==
    IF bitrate = 0 \/ height = 0 THEN 0
    ELSE IF bitrate >= IdealBitrate(height) THEN 30
    ELSE (30 * bitrate) \div IdealBitrate(height)

\* QualityService._calculate_bitrate_score: int(min(bitrate / ideal, 1.0) * 30);
\* for the bitrates of the model the floating-point product has the integer
\* part of the exact one
CalculateBitrateScore(bitrate, height) ==
    IF bitrate = 0 \/ height = 0 THEN 0
    ELSE IF bitrate >= IdealBitrate(height) THEN 30
    ELSE IntOfQuotient(30 * bitrate, IdealBitrate(height))

\* the HDR points of calculate_quality_score
HdrScore(hdr_type) ==
    IF hdr_type \in {"HDR10", "Dolby Vision", "HDR10+", "HLG"} THEN 15 ELSE 0

\* QualityService.calculate_quality_score.  The dicts _create_duplicate_group
\* builds carry no height, so they get no resolution and no bitrate points;
\* the records of the model are stereo, with one audio track, no subtitle
\* track and no HDR, which are the defaults of the keys
CalculateQualityScore(metadata) ==
    LET height == Get(metadata, "height", 0)
        video_codec == Lower(Get(metadata, "video_codec", ""))
        bitrate_score == CalculateBitrateScore(Get(metadata, "bitrate", 0), height)
        audio_channels == Get(metadata, "audio_channels", 2)
        audio_track_count == Get(metadata, "audio_track_count", 1)
        subtitle_track_count == Get(metadata, "subtitle_track_count", 0)
        hdr_type == Get(metadata, "hdr_type", "SDR")
        score == ResolutionScore(height)
                    + CodecScore(video_codec)
                    + bitrate_score
                    + (IF audio_channels >= 5 THEN 15 ELSE 10)
                    + (IF audio_track_count > 1 THEN Min((audio_track_count - 1) * 3, 10) ELSE 0)
                    + (IF subtitle_track_count > 0 THEN Min(subtitle_track_count * 2, 10) ELSE 0)
                    + HdrScore(hdr_type)
    IN Min(score, 200)

\* a dict of files_metadata
FileMeta(id, quality_score, video_codec, audio, subs, dominant) ==
    [id |-> id, quality_score |-> quality_score, video_codec |-> video_codec,
     audio_languages |-> audio, subtitle_languages |-> subs,
     dominant_audio_language |-> dominant]

\* the copy rank_files makes of a dict: a score of None or 0 is computed anew
Enriched(meta) ==
    [meta EXCEPT !.quality_score = IF @ \in {NULL, 0} THEN CalculateQualityScore(meta) ELSE @]

\* as InsertStable, but the item goes before the items of equal score
InsertStable_BeforeEquals(item, sorted) ==
    LET k == Cardinality({i \in DOMAIN sorted : sorted[i].quality_score > item.quality_score})
    IN SubSeq(sorted, 1, k) \o <<item>> \o SubSeq(sorted, k + 1, Len(sorted))

\* where list.sort(key=quality_score, reverse=True) puts an item that came
\* after all the items of `sorted` in the input: behind every item whose
\* score is not lower (the sort is stable)
InsertStable(item, sorted) ==
    LET k == Cardinality({i \in DOMAIN sorted : sorted[i].quality_score >= item.quality_score})
    IN SubSeq(sorted, 1, k) \o <<item>> \o SubSeq(sorted, k + 1, Len(sorted))

\* ranked.sort(key=lambda item: item.get("quality_score", 0), reverse=True)
RECURSIVE SortDescending(_)
SortDescending(list) ==
    IF list = <<>> THEN <<>>
    ELSE InsertStable(list[Len(list)], SortDescending(SubSeq(list, 1, Len(list) - 1)))

\* item["rank"] = idx
WithRank(item, idx) ==
    [id |-> item.id, quality_score |-> item.quality_score, video_codec |-> item.video_codec,
     audio_languages |-> item.audio_languages,
     subtitle_languages |-> item.subtitle_languages,
     dominant_audio_language |-> item.dominant_audio_language, rank |-> idx]

\* QualityService.rank_files
RankFiles(files_metadata) ==
    LET ranked == SortDescending([i \in DOMAIN files_metadata |-> Enriched(files_metadata[i])])
    IN [idx \in DOMAIN ranked |-> WithRank(ranked[idx], idx)]

\* what a call of the quality service returned
Output(op, index, ranked, concern) ==
    [op |-> op, index |-> index, ranked |-> ranked, concern |-> concern.concern,
     reason |-> concern.reason, score |-> 0, clusters |-> <<>>]

NoOutput == Output("none", 0, <<>>, [concern |-> FALSE, reason |-> ""])

\* ------------------------------------------------------ duplicate detection
\* MediaFile.video_codec of the records of the model
VideoCodec(f) == "hevc"

\* MediaFile.height of the records of the model: record 1 is a 4K file, the
\* others are 480p
Height(f) == IF f = 1 THEN 2160 ELSE 480

\* rapidfuzz.fuzz.ratio on the lower-cased file names of the model
FuzzRatio(name1, name2) == IF name1 = name2 THEN 100 ELSE 0

\* what the last POST /scan/deduplicate did: whether it raised, the groups it
\* flushed, the numbers of exact and fuzzy groups it reported
Detection(raised, flushed, exact, fuzzy) ==
    [raised |-> raised, flushed |-> flushed, exact |-> exact, fuzzy |-> fuzzy]

NoDetection == Detection(FALSE, {}, 0, 0)

\* the metadata columns of a MediaFile row
MediaRow(md5_hash, parsed_title, quality_score, langs) ==
    [md5_hash |-> md5_hash, parsed_title |-> parsed_title, quality_score |-> quality_score,
     is_duplicate |-> FALSE, audio_languages |-> langs[1], subtitle_languages |-> langs[2],
     dominant_audio_language |-> langs[3]]

\* no language known; English audio; foreign audio with English subtitles
LanguageProfiles ==
    {<< <<>>, <<>>, "" >>, << <<"eng">>, <<>>, "eng" >>, << <<"kor">>, <<"eng">>, "kor" >>}

\* the quality scores the scanner stored: none, or one of four values whose
\* differences lie below, on and between the two thresholds
StoredScores == {NULL, 10, 30, 60, 70}

\* the inventories of the detection specification: record 1 has a hash and a
\* parsed title; every other record has the same or another hash, and the
\* same title or none
Inventories ==
    {m \in [Files -> {MediaRow(h, t, s, l) : h \in {"h1", "h2"}, t \in {"t", NullText},
                                             s \in StoredScores, l \in LanguageProfiles}] :
        m[1].md5_hash = "h1" /\ m[1].parsed_title = "t"}

\* the state of detection and of the quality service in the specifications
\* that are not about them
InitDedupIdle ==
    /\ media = [f \in Files |-> MediaRow("h1", "t", 10, << <<>>, <<>>, "" >>)]
    /\ settings = DefaultSettings
    /\ groups = {}
    /\ det = NoDetection
    /\ inp = <<>>
    /\ out = NoOutput

Init == InitStore /\ InitDedupIdle

\* ------------------------------------------------- the unit of work: commit
\* the unique constraint on pending_deletions.media_file_id
UniqueViolation(rows, new) ==
    \/ \E i \in DOMAIN new : \E p \in rows : p.file = new[i].file
    \/ \E i, j \in DOMAIN new : i # j /\ new[i].file = new[j].file

\* the primary keys the database hands to n new rows: keys are opaque, the
\* model takes the least ones no row of the table carries
RECURSIVE FreshIds(_, _)
FreshIds(used, n) ==
    IF n = 0 THEN <<>>
    ELSE LET id == CHOOSE i \in 1..(Cardinality(used) + 1) :
                      i \notin used /\ \A j \in 1..(i - 1) : j \in used
         IN <<id>> \o FreshIds(used \cup {id}, n - 1)

\* INSERT of the session's new PendingDeletion objects
Flush(rows, new) ==
    LET ids == FreshIds({p.id : p \in rows}, Len(new))
    IN rows \cup {Row(new[i], ids[i]) : i \in DOMAIN new}

\* the outcome of one call of stage_file_for_deletion: the exception raised
\* (or "none"), the session, the store, and the archive_operations committed
StageResult(raised, sess, st, log) ==
    [raised |-> raised, sess |-> sess, st |-> st, ops |-> log]

\* self.db.commit() at the end of stage_file_for_deletion: every object the
\* session holds is flushed; an IntegrityError rolls the transaction back
\* (the file system keeps what was done to it)
CommitStage(sess, st, d) ==
    IF UniqueViolation(st.pending, sess.new_pd)
    THEN StageResult("integrity", NewSession(st.is_deleted),
                     Store(st.is_deleted, st.pending, d), {})
    ELSE StageResult("none", NewSession(sess.mem),
                     Store(sess.mem, Flush(st.pending, sess.new_pd), d), sess.new_ops)

\* as StagedMoved, but the row keeps the null temp_filepath it was built with
StagedMoved_TempUnset(sess, f, temp_filepath, t) ==
    [sess EXCEPT !.new_pd = Append(@, NewPending(f, t)),
                 !.new_ops = @ \cup {ArchiveOp(f, "move_to_temp", TRUE)},
                 !.mem[f] = TRUE]

\* the session after the move succeeded: temp_filepath set, success logged
StagedMoved(sess, f, temp_filepath, t) ==
    [sess EXCEPT !.new_pd = Append(@, [NewPending(f, t) EXCEPT !.temp = temp_filepath]),
                 !.new_ops = @ \cup {ArchiveOp(f, "move_to_temp", TRUE)},
                 !.mem[f] = TRUE]

\* the session after the source could not be resolved
StagedMissing(sess, f, t) ==
    [sess EXCEPT !.new_pd = Append(@, [NewPending(f, t) EXCEPT !.source_missing = TRUE]),
                 !.new_ops = @ \cup {ArchiveOp(f, "move_to_temp", FALSE)},
                 !.mem[f] = TRUE]

\* the session after shutil.move raised: the PendingDeletion added before the
\* move is still in the session, the failure is logged, the flag is reset
StageMoveFailed(sess, f, t) ==
    [sess EXCEPT !.new_pd = Append(@, NewPending(f, t)),
                 !.new_ops = @ \cup {ArchiveOp(f, "move_to_temp", FALSE)},
                 !.mem[f] = FALSE]

\* DeletionService.stage_file_for_deletion(media_file) where
\* temp_delete_roots yields `roots`
StageUnder(roots, f, st, sess, t, usable, moveOk) ==
    LET media_type == NormalizeMediaType(MediaType(f))
        staging_dir == PrepareStagingDirectoryIn(roots, media_type, t, usable)
        temp_filepath == UniqueTempPath(staging_dir, Filename(f), st.disk)
        resolved_source == ResolveMediaPath(OrigPath(f), st.disk)
    IN IF staging_dir = NoPath
       THEN StageResult("prepare", sess, st, {})
       ELSE IF resolved_source # NoPath
       THEN IF moveOk
            THEN CommitStage(StagedMoved(sess, f, temp_filepath, t), st,
                             MoveFile(st.disk, resolved_source, temp_filepath))
            ELSE StageResult("move", StageMoveFailed(sess, f, t), st, {})
       ELSE CommitStage(StagedMissing(sess, f, t), st, st.disk)

\* DeletionService.stage_file_for_deletion(media_file) on store st in session
\* sess at time t; usable: the roots under which mkdir succeeds; moveOk:
\* shutil.move succeeds
stage_file_for_deletion(f, st, sess, t, usable, moveOk) ==
    StageUnder(TempDeleteRoots, f, st, sess, t, usable, moveOk)

\* what the environment decides for one stage call: the usable roots (all of
\* them or none) and whether the move succeeds
UsableSets == {{"share", "mount", "local"}, {}}
StageEnv == UsableSets \X BOOLEAN

\* every outcome of one stage call that the environment can bring about
StageOutcomes(f, st, sess, t) ==
    {stage_file_for_deletion(f, st, sess, t, env[1], env[2]) : env \in StageEnv}

Current == Store(is_deleted, pending, disk)

\* ------------------------------------------------------------- the requests
\* DELETE /media/{file_id}: delete_media_file
DeleteMedia(f) ==
    /\ IF PendingOf(pending, f) # {}
       THEN /\ ret' = Ret("stage", f, TRUE, "pending")
            /\ ops' = {}
            /\ UNCHANGED <<is_deleted, pending, disk>>
       ELSE \E r \in StageOutcomes(f, Current, NewSession(is_deleted), now) :
                 /\ disk' = r.st.disk
                 /\ pending' = r.st.pending
                 /\ is_deleted' = r.st.is_deleted
                 /\ ops' = r.ops
                 /\ ret' = IF r.raised = "none"
                           THEN Ret("stage", f, TRUE, "staged")
                           ELSE Ret("stage", f, FALSE, r.raised)
    /\ UNCHANGED <<now, ext>>

\* a direct call of stage_file_for_deletion in a session of its own, without
\* the route's look at media_file.pending_deletion (as the service's tests call it)
DirectStage(f) ==
    /\ \E r \in StageOutcomes(f, Current, NewSession(is_deleted), now) :
         /\ disk' = r.st.disk
         /\ pending' = r.st.pending
         /\ is_deleted' = r.st.is_deleted
         /\ ops' = r.ops
         /\ ret' = IF r.raised = "none"
                   THEN Ret("stage", f, TRUE, "staged")
                   ELSE Ret("stage", f, FALSE, r.raised)
    /\ UNCHANGED <<now, ext>>

\* media_file.pending_deletion in the batch's session: loaded from the database
\* on first access and kept until a commit or rollback expires it
CachedPending(sess, rows, f) ==
    IF sess.cache[f] = "unloaded"
    THEN IF PendingOf(rows, f) # {} THEN "some" ELSE "none"
    ELSE sess.cache[f]

\* the state of batch_delete_files before its loop: the store, a new session,
\* the staged and failures lists, the archive_operations committed so far
BatchBegin(st) ==
    [st |-> st, sess |-> NewSession(st.is_deleted), ops |-> {}, staged |-> {},
     failures |-> {}]

\* one iteration of the loop of batch_delete_files on file id f, where r is
\* the outcome of the stage call (if the iteration makes one)
BatchIteration(acc, f, cached, r) ==
    IF cached = "some"
    THEN [acc EXCEPT !.sess.cache[f] = cached,
                     !.failures = @ \cup {<<f, "pending">>}]
    ELSE [st |-> r.st, sess |-> r.sess, ops |-> acc.ops \cup r.ops,
          staged |-> IF r.raised = "none" THEN acc.staged \cup {f} ELSE acc.staged,
          failures |-> IF r.raised = "none" THEN acc.failures
                       ELSE acc.failures \cup {<<f, r.raised>>}]

\* the loop of batch_delete_files over file_ids: every state the loop can end
\* in, over the outcomes of the stage calls it makes
RECURSIVE BatchLoop(_, _, _)
BatchLoop(ids, t, acc) ==
    IF ids = <<>> THEN {acc}
    ELSE LET f == Head(ids)
             cached == CachedPending(acc.sess, acc.st.pending, f)
             sess == [acc.sess EXCEPT !.cache[f] = cached]
         IN UNION {BatchLoop(Tail(ids), t, BatchIteration(acc, f, cached, r)) :
                     r \in StageOutcomes(f, acc.st, sess, t)}

\* POST /media/batch-delete: batch_delete_files; when the response is sent
\* get_db closes the session, which discards whatever it still holds
BatchDeleteFiles(ids) ==
    /\ \E r \in BatchLoop(ids, now, BatchBegin(Current)) :
         /\ disk' = r.st.disk
         /\ pending' = r.st.pending
         /\ is_deleted' = r.st.is_deleted
         /\ ops' = r.ops
         /\ ret' = [Ret("batch", 0, r.failures = {}, "")
                      EXCEPT !.count = Cardinality(r.staged), !.staged = r.staged,
                             !.failed_moves = {x[1] : x \in {y \in r.failures : y[2] = "move"}}]
    /\ UNCHANGED <<now, ext>>

\* the row after lines 157-160 of approve_deletion
Approved(p, t) == [p EXCEPT !.approved = TRUE, !.approved_at = t]

\* the row committed after the staged file was removed
ApprovedRemoved(p, t) == [Approved(p, t) EXCEPT !.deleted_at = t]

\* the row committed when there was no staged file to remove
ApprovedNoFile(p, t) == Approved(p, t)

\* the row committed when os.remove raised
ApprovedFailed(p, t) == Approved(p, t)

\* resolve_media_path(pending.temp_filepath) if pending.temp_filepath else None
ResolvedTemp(p, d) == IF p.temp # NoPath THEN ResolveMediaPath(p.temp, d) ELSE NoPath

\* POST /deletions/{pending_id}/approve: DeletionService.approve_deletion
ApproveDeletion(id) ==
    /\ LET found == {p \in pending : p.id = id}
       IN IF found = {}
          THEN /\ ret' = Ret("approve", 0, FALSE, "not_found")
               /\ ops' = {}
               /\ UNCHANGED <<pending, disk>>
          ELSE LET p == CHOOSE q \in found : TRUE
                   resolved_temp == ResolvedTemp(p, disk)
               IN IF resolved_temp # NoPath
                  THEN \E removeOk \in BOOLEAN :
                         IF removeOk
                         THEN /\ disk' = RemoveFile(disk, resolved_temp)
                              /\ pending' = (pending \ {p}) \cup {ApprovedRemoved(p, now)}
                              /\ ops' = {ArchiveOp(p.file, "permanent_delete", TRUE)}
                              /\ ret' = Ret("approve", p.file, TRUE, "removed")
                         ELSE /\ disk' = disk
                              /\ pending' = (pending \ {p}) \cup {ApprovedFailed(p, now)}
                              /\ ops' = {ArchiveOp(p.file, "permanent_delete", FALSE)}
                              /\ ret' = Ret("approve", p.file, FALSE, "io_error")
                  ELSE /\ pending' = (pending \ {p}) \cup {ApprovedNoFile(p, now)}
                       /\ ret' = Ret("approve", p.file, TRUE, "no_file")
                       /\ ops' = {}
                       /\ UNCHANGED disk
    /\ UNCHANGED <<is_deleted, now, ext>>

\* as RestoreFailedFlags, but the flag is cleared before the move is tried
RestoreFailedFlags_Cleared(flags, p) == [flags EXCEPT ![p.file] = FALSE]

\* the is_deleted flags restore_file commits when the move raised
RestoreFailedFlags(flags, p) == flags

\* the pending_deletions rows restore_file commits when the move raised
RestoreFailedRows(rows, p) == rows

\* POST /deletions/{pending_id}/restore: DeletionService.restore_file
RestoreFile(id) ==
    /\ LET found == {p \in pending : p.id = id}
       IN IF found = {}
          THEN /\ ret' = Ret("restore", 0, FALSE, "not_found")
               /\ ops' = {}
               /\ UNCHANGED <<is_deleted, pending, disk>>
          ELSE LET p == CHOOSE q \in found : TRUE
                   resolved_temp == ResolvedTemp(p, disk)
               IN IF resolved_temp # NoPath
                  THEN \E moveOk \in BOOLEAN :
                         IF moveOk
                         THEN /\ disk' = MoveFile(disk, resolved_temp, OrigPath(p.file))
                              /\ ops' = {ArchiveOp(p.file, "restore", TRUE)}
                              /\ is_deleted' = [is_deleted EXCEPT ![p.file] = FALSE]
                              /\ pending' = pending \ {p}
                              /\ ret' = Ret("restore", p.file, TRUE, "restored")
                         ELSE /\ disk' = disk
                              /\ ops' = {ArchiveOp(p.file, "restore", FALSE)}
                              /\ is_deleted' = RestoreFailedFlags(is_deleted, p)
                              /\ pending' = RestoreFailedRows(pending, p)
                              /\ ret' = Ret("restore", p.file, FALSE, "io_error")
                  ELSE /\ ret' = Ret("restore", p.file, TRUE, "no_file")
                       /\ ops' = {}
                       /\ UNCHANGED <<is_deleted, pending, disk>>
    /\ UNCHANGED <<now, ext>>

\* as CutoffDate, but one day late
CutoffDate_OffByOne(t) == t - RetentionDays + 1

\* cutoff_date of cleanup_old_pending_deletions
CutoffDate(t) == t - RetentionDays

\* the query of cleanup_old_pending_deletions
OldPending(rows, t) == {p \in rows : p.staged_at < CutoffDate(t) /\ ~p.approved}

\* the rows whose staged file exists (os.path.exists(pending.temp_filepath))
WithStagedFile(rows, d) == {p \in rows : p.temp # NoPath /\ p.temp \in DOMAIN d}

\* POST /deletions/cleanup: DeletionService.cleanup_old_pending_deletions;
\* failing: the rows whose os.remove raises, which the sweep logs and skips
CleanupOldPendingDeletions ==
    /\ \E failing \in SUBSET WithStagedFile(OldPending(pending, now), disk) :
         LET removed == OldPending(pending, now) \ failing
             gone == {p.temp : p \in WithStagedFile(removed, disk)}
         IN /\ disk' = [q \in DOMAIN disk \ gone |-> disk[q]]
            /\ pending' = pending \ removed
            /\ ret' = [Ret("cleanup", 0, TRUE, IF failing = {} THEN "" ELSE "io_error")
                         EXCEPT !.count = Cardinality(removed)]
    /\ ops' = {}
    /\ UNCHANGED <<is_deleted, now, ext>>

\* get_pending_deletions: the rows the list of pending deletions returns
GetPendingDeletions(rows) == {p \in rows : p.deleted_at = NULL}

\* the clock moves on to a later instant of D
Tick(D) ==
    /\ \E t \in D : t > now /\ now' = t
    /\ ret' = Ret("tick", 0, TRUE, "")
    /\ ops' = {}
    /\ UNCHANGED <<is_deleted, pending, disk, ext>>

\* the pending_deletion ids a request may name: one per row the table can
\* hold, and one more that no row carries
PendingIds == 1..(Cardinality(Files) + 1)

\* the file_ids lists a batch-delete request may carry (a list with a
\* repeated id or an id already staged acts as a shorter list)
BatchIds == [1..MaxBatch -> Files]

Next ==
    \/ \E f \in Files : DeleteMedia(f)
    \/ \E f \in Files : DirectStage(f)
    \/ \E ids \in BatchIds : BatchDeleteFiles(ids)
    \/ \E id \in PendingIds : ApproveDeletion(id)
    \/ \E id \in PendingIds : RestoreFile(id)
    \/ CleanupOldPendingDeletions
    \/ Tick(Days)

Spec == Init /\ [][Next]_vars

\* the expiry sweep over single deletes, approvals and restores, on a finer clock
NextExpiry ==
    \/ \E f \in Files : DeleteMedia(f)
    \/ \E id \in PendingIds : ApproveDeletion(id)
    \/ \E id \in PendingIds : RestoreFile(id)
    \/ CleanupOldPendingDeletions
    \/ Tick(ExpiryDays)

SpecExpiry == Init /\ [][NextExpiry]_vars

\* --------------------------------------------- requests in worker threads
\* Each request has a session and a transaction of its own.  autoflush is
\* off, so a request reads the committed tables when it queries and writes
\* only in its commit; between the two it calls the file system.  A step is
\* one such call (or a run of reads).
AllIdle == \A p \in Procs : txn[p].op = "idle"

\* the thread has returned its response
Returned(th, ok, detail) == [th EXCEPT !.pc = "done", !.ok = ok, !.detail = detail]

\* DELETE /media/{file_id} up to the move: the look at file.pending_deletion,
\* _prepare_staging_directory, _unique_temp_path, resolve_media_path
StageBegin(p, f) ==
    /\ txn[p].op = "idle"
    /\ LET th == Thread("stage", "act", f)
           staging_dir == PrepareStagingDirectory(NormalizeMediaType(MediaType(f)), now,
                                                  {"share", "mount", "local"})
       IN txn' = [txn EXCEPT ![p] =
                    IF PendingOf(pending, f) # {}
                    THEN Returned(th, TRUE, "pending")
                    ELSE [th EXCEPT !.path = UniqueTempPath(staging_dir, Filename(f), disk),
                                    !.src = ResolveMediaPath(OrigPath(f), disk)]]
    /\ UNCHANGED <<is_deleted, pending, ops, disk, now, ret, dedup>>

\* shutil.move(resolved_source, temp_filepath) of the stage call; when it
\* raises the route answers 500 and the session is closed
StageMove(p) ==
    /\ txn[p].op = "stage" /\ txn[p].pc = "act"
    /\ LET th == txn[p]
       IN IF th.src = NoPath
          THEN /\ txn' = [txn EXCEPT ![p].pc = "commit"]
               /\ UNCHANGED disk
          ELSE \E moveOk \in BOOLEAN :
                 IF moveOk /\ th.src \in DOMAIN disk
                 THEN /\ disk' = MoveFile(disk, th.src, th.path)
                      /\ txn' = [txn EXCEPT ![p].pc = "commit"]
                 ELSE /\ txn' = [txn EXCEPT ![p] = Returned(th, FALSE, "move")]
                      /\ UNCHANGED disk
    /\ UNCHANGED <<is_deleted, pending, ops, now, ret, dedup>>

\* self.db.commit() of the stage call
StageCommit(p) ==
    /\ txn[p].op = "stage" /\ txn[p].pc = "commit"
    /\ LET th == txn[p]
           sess == IF th.src = NoPath
                   THEN StagedMissing(NewSession(is_deleted), th.arg, now)
                   ELSE StagedMoved(NewSession(is_deleted), th.arg, th.path, now)
           r == CommitStage(sess, Current, disk)
       IN /\ pending' = r.st.pending
          /\ is_deleted' = r.st.is_deleted
          /\ ops' = r.ops
          /\ txn' = [txn EXCEPT ![p] =
                       IF r.raised = "none" THEN Returned(th, TRUE, "staged")
                       ELSE Returned(th, FALSE, r.raised)]
    /\ UNCHANGED <<disk, now, ret, dedup>>

\* the query by id at the start of approve_deletion and of restore_file
LookupBegin(p, op, id) ==
    /\ txn[p].op = "idle"
    /\ LET th == Thread(op, "check", id)
           found == {q \in pending : q.id = id}
       IN txn' = [txn EXCEPT ![p] =
                    IF found = {} THEN Returned(th, FALSE, "not_found")
                    ELSE [th EXCEPT !.seen = {id}, !.cur = found]]
    /\ UNCHANGED <<is_deleted, pending, ops, disk, now, ret, dedup>>

\* resolve_media_path(pending.temp_filepath) and resolved_temp.exists() in
\* approve_deletion and restore_file
TempCheck(p) ==
    /\ txn[p].op \in {"approve", "restore"} /\ txn[p].pc = "check"
    /\ LET th == txn[p]
           row == CHOOSE q \in th.cur : TRUE
           resolved_temp == ResolvedTemp(row, disk)
       IN txn' = [txn EXCEPT ![p] =
                    [th EXCEPT !.path = resolved_temp,
                               !.pc = IF resolved_temp = NoPath THEN "commit" ELSE "act"]]
    /\ UNCHANGED <<is_deleted, pending, ops, disk, now, ret, dedup>>

\* os.remove(resolved_temp) in approve_deletion
ApproveRemove(p) ==
    /\ txn[p].op = "approve" /\ txn[p].pc = "act"
    /\ \E removeOk \in BOOLEAN :
         IF removeOk /\ txn[p].path \in DOMAIN disk
         THEN /\ disk' = RemoveFile(disk, txn[p].path)
              /\ txn' = [txn EXCEPT ![p].pc = "commit"]
         ELSE /\ txn' = [txn EXCEPT ![p].pc = "commit", ![p].failed = TRUE]
              /\ UNCHANGED disk
    /\ UNCHANGED <<is_deleted, pending, ops, now, ret, dedup>>

\* self.db.commit() of approve_deletion: the UPDATE of the row's changed
\* columns; when the row is gone the flush raises StaleDataError and nothing
\* is committed
ApproveCommit(p) ==
    /\ txn[p].op = "approve" /\ txn[p].pc = "commit"
    /\ LET th == txn[p]
           row == CHOOSE q \in th.cur : TRUE
           stored == {q \in pending : q.id = row.id}
           removed == th.path # NoPath /\ ~th.failed
       IN IF stored = {}
          THEN /\ txn' = [txn EXCEPT ![p] = Returned(th, FALSE, "error")]
               /\ ops' = {}
               /\ UNCHANGED pending
          ELSE /\ pending' = (pending \ stored) \cup
                               {IF removed THEN ApprovedRemoved(q, now) ELSE Approved(q, now) :
                                  q \in stored}
               /\ ops' = IF th.path = NoPath THEN {}
                         ELSE {ArchiveOp(row.file, "permanent_delete", removed)}
               /\ txn' = [txn EXCEPT ![p] =
                            IF th.failed THEN Returned(th, FALSE, "io_error")
                            ELSE IF removed THEN Returned(th, TRUE, "removed")
                            ELSE Returned(th, TRUE, "no_file")]
    /\ UNCHANGED <<is_deleted, disk, now, ret, dedup>>

\* shutil.move(resolved_temp, pending.original_filepath) in restore_file
RestoreMove(p) ==
    /\ txn[p].op = "restore" /\ txn[p].pc = "act"
    /\ LET row == CHOOSE q \in txn[p].cur : TRUE
       IN \E moveOk \in BOOLEAN :
            IF moveOk /\ txn[p].path \in DOMAIN disk
            THEN /\ disk' = MoveFile(disk, txn[p].path, OrigPath(row.file))
                 /\ txn' = [txn EXCEPT ![p].pc = "commit"]
            ELSE /\ txn' = [txn EXCEPT ![p].pc = "commit", ![p].failed = TRUE]
                 /\ UNCHANGED disk
    /\ UNCHANGED <<is_deleted, pending, ops, now, ret, dedup>>

\* self.db.commit() of restore_file: after a move, the UPDATE of the media
\* file and the DELETE of the row (a DELETE that matches no row only warns)
RestoreCommit(p) ==
    /\ txn[p].op = "restore" /\ txn[p].pc = "commit"
    /\ LET th == txn[p]
           row == CHOOSE q \in th.cur : TRUE
       IN IF th.path = NoPath
          THEN /\ txn' = [txn EXCEPT ![p] = Returned(th, TRUE, "no_file")]
               /\ ops' = {}
               /\ UNCHANGED <<is_deleted, pending>>
          ELSE IF th.failed
          THEN /\ txn' = [txn EXCEPT ![p] = Returned(th, FALSE, "io_error")]
               /\ ops' = {ArchiveOp(row.file, "restore", FALSE)}
               /\ UNCHANGED <<is_deleted, pending>>
          ELSE /\ txn' = [txn EXCEPT ![p] = Returned(th, TRUE, "restored")]
               /\ ops' = {ArchiveOp(row.file, "restore", TRUE)}
               /\ is_deleted' = [is_deleted EXCEPT ![row.file] = FALSE]
               /\ pending' = {q \in pending : q.id # row.id}
    /\ UNCHANGED <<disk, now, ret, dedup>>

\* the thread goes on to the next row of old_pending, or to the commit
NextRow(th, rest) ==
    [th EXCEPT !.rows = rest, !.cur = {}, !.path = NoPath,
               !.pc = IF rest = {} THEN "commit" ELSE "check"]

\* the query of cleanup_old_pending_deletions
CleanupBegin(p) ==
    /\ txn[p].op = "idle"
    /\ LET old_pending == OldPending(pending, now)
       IN txn' = [txn EXCEPT ![p] =
                    NextRow([Thread("cleanup", "check", 0)
                               EXCEPT !.seen = {q.id : q \in old_pending}], old_pending)]
    /\ UNCHANGED <<is_deleted, pending, ops, disk, now, ret, dedup>>

\* os.path.exists(pending.temp_filepath) for the next row of the sweep; a row
\* without a staged file is marked for DELETE at once
CleanupCheck(p) ==
    /\ txn[p].op = "cleanup" /\ txn[p].pc = "check"
    /\ \E row \in txn[p].rows :
         LET th == txn[p]
         IN txn' = [txn EXCEPT ![p] =
                      IF row.temp # NoPath /\ row.temp \in DOMAIN disk
                      THEN [th EXCEPT !.cur = {row}, !.path = row.temp, !.pc = "act"]
                      ELSE NextRow([th EXCEPT !.deleted = @ \cup {row.id}], th.rows \ {row})]
    /\ UNCHANGED <<is_deleted, pending, ops, disk, now, ret, dedup>>

\* os.remove(pending.temp_filepath) in the sweep; when it raises the row is
\* logged and skipped
CleanupRemove(p) ==
    /\ txn[p].op = "cleanup" /\ txn[p].pc = "act"
    /\ LET th == txn[p]
           row == CHOOSE q \in th.cur : TRUE
       IN \E removeOk \in BOOLEAN :
            IF removeOk /\ th.path \in DOMAIN disk
            THEN /\ disk' = RemoveFile(disk, th.path)
                 /\ txn' = [txn EXCEPT ![p] =
                              NextRow([th EXCEPT !.deleted = @ \cup {row.id}], th.rows \ {row})]
            ELSE /\ txn' = [txn EXCEPT ![p] =
                              NextRow([th EXCEPT !.failed = TRUE], th.rows \ {row})]
                 /\ UNCHANGED disk
    /\ UNCHANGED <<is_deleted, pending, ops, now, ret, dedup>>

\* self.db.commit() of the sweep: the DELETE of every row it marked; the
\* count it returns is the number of rows it marked
CleanupCommit(p) ==
    /\ txn[p].op = "cleanup" /\ txn[p].pc = "commit"
    /\ pending' = {q \in pending : q.id \notin txn[p].deleted}
    /\ ops' = {}
    /\ txn' = [txn EXCEPT ![p] = Returned(txn[p], TRUE, IF txn[p].failed THEN "io_error" ELSE "")]
    /\ UNCHANGED <<is_deleted, disk, now, ret, dedup>>

\* the requests served one at a time before the worker threads start
SetupStage(f) == AllIdle /\ DeleteMedia(f)

SetupTick == AllIdle /\ Tick(Days)

NextConcurrent ==
    \/ \E f \in Files : SetupStage(f)
    \/ SetupTick
    \/ \E p \in Procs : \E f \in Files : StageBegin(p, f)
    \/ \E p \in Procs : StageMove(p)
    \/ \E p \in Procs : StageCommit(p)
    \/ \E p \in Procs : \E op \in {"approve", "restore"} : \E id \in PendingIds :
          LookupBegin(p, op, id)
    \/ \E p \in Procs : TempCheck(p)
    \/ \E p \in Procs : ApproveRemove(p)
    \/ \E p \in Procs : ApproveCommit(p)
    \/ \E p \in Procs : RestoreMove(p)
    \/ \E p \in Procs : RestoreCommit(p)
    \/ \E p \in Procs : CleanupBegin(p)
    \/ \E p \in Procs : CleanupCheck(p)
    \/ \E p \in Procs : CleanupRemove(p)
    \/ \E p \in Procs : CleanupCommit(p)

SpecConcurrent == Init /\ [][NextConcurrent]_vars

\* ------------------------------------------- calls of the quality service
\* the (stored score, codec) pairs of the dicts given to rank_files: the
\* codec only counts when the score is computed anew
ScoreVariants ==
    {<<s, c>> \in {NULL, 0, 10, 30, 60} \X {"", "hevc"} : c = "" \/ s \in {NULL, 0}}

\* the lists given to rank_files: up to MaxMembers dicts, the id of a dict
\* being its place in the list
RankInputs ==
    UNION {{[i \in 1..n |-> FileMeta(i, v[i][1], v[i][2], <<>>, <<>>, "")] :
              v \in [1..n -> ScoreVariants]} : n \in 0..MaxMembers}

\* the dicts given to check_language_concern
ConcernInputs ==
    {<<FileMeta(1, 10, "", audio, subs, dominant)>> :
        audio \in {<<>>, <<"eng">>, <<"ENG", "spa">>, <<"kor">>},
        subs \in {<<>>, <<"eng">>, <<"fra">>},
        dominant \in {"", "eng", "ENG", "kor"}}

InitQuality ==
    /\ StoreAt(AllOnShare)
    /\ media = [f \in Files |-> MediaRow("h1", "t", 10, << <<>>, <<>>, "" >>)]
    /\ settings \in AllSettings
    /\ groups = {}
    /\ det = NoDetection
    /\ inp \in RankInputs \cup ConcernInputs
    /\ out = NoOutput

\* a call of QualityService.rank_files(inp)
RankFilesCall ==
    /\ out' = Output("rank_files", 0, RankFiles(inp), [concern |-> FALSE, reason |-> ""])
    /\ UNCHANGED <<is_deleted, pending, ops, disk, now, ret, txn, media, settings, groups, det, inp>>

\* a call of QualityService.check_language_concern(inp[i])
CheckLanguageConcernCall(i) ==
    /\ out' = Output("check_language_concern", i, <<>>, CheckLanguageConcern(inp[i], settings))
    /\ UNCHANGED <<is_deleted, pending, ops, disk, now, ret, txn, media, settings, groups, det, inp>>

\* the dicts given to calculate_quality_score: every key is there or not; the
\* heights lie on, next to and far from the bounds of the bands, the bitrates
\* below, on and far above an ideal, and below zero
Heights == {-1, 0, 479, 480, 719, 720, 1079, 1080, 2159, 2160}
Bitrates == {-5000, -1, 0, 999, 2500, 1000000}
ScoreInputs ==
    {<< height @@ video_codec @@ bitrate @@ audio_channels @@ audio_track_count
           @@ subtitle_track_count @@ hdr_type >> :
        height \in {<<>>} \cup {[height |-> v] : v \in Heights},
        video_codec \in {<<>>} \cup {[video_codec |-> v] :
                                       v \in {"HEVC", "h264", "vp9", "av1", "mpeg2"}},
        bitrate \in {<<>>} \cup {[bitrate |-> v] : v \in Bitrates},
        audio_channels \in {<<>>} \cup {[audio_channels |-> v] : v \in {2, 6}},
        audio_track_count \in {<<>>} \cup {[audio_track_count |-> v] : v \in {1, 2, 5}},
        subtitle_track_count \in {<<>>} \cup {[subtitle_track_count |-> v] : v \in {-1, 0, 2, 6}},
        hdr_type \in {<<>>} \cup {[hdr_type |-> v] : v \in {"SDR", "HDR10"}}}

InitScore ==
    /\ StoreAt(AllOnShare)
    /\ media = [f \in Files |-> MediaRow("h1", "t", 10, << <<>>, <<>>, "" >>)]
    /\ settings = DefaultSettings
    /\ groups = {}
    /\ det = NoDetection
    /\ inp \in ScoreInputs
    /\ out = NoOutput

\* a call of QualityService.calculate_quality_score(inp[1])
CalculateQualityScoreCall ==
    /\ out.op = "none"
    /\ out' = [Output("calculate_quality_score", 1, <<>>, [concern |-> FALSE, reason |-> ""])
                 EXCEPT !.score = CalculateQualityScore(inp[1])]
    /\ UNCHANGED <<is_deleted, pending, ops, disk, now, ret, txn, media, settings, groups, det, inp>>

NextScore == CalculateQualityScoreCall

SpecScore == InitScore /\ [][NextScore]_vars

NextQuality ==
    \/ RankFilesCall
    \/ \E i \in DOMAIN inp : CheckLanguageConcernCall(i)

SpecQuality == InitQuality /\ [][NextQuality]_vars

\* ------------------------------------------ duplicate detection: the service
\* the dict _create_duplicate_group builds for a file
FilesMetadata(m, f) ==
    FileMeta(f, IF m[f].quality_score # NULL THEN m[f].quality_score ELSE 0, VideoCodec(f),
             m[f].audio_languages, m[f].subtitle_languages, m[f].dominant_audio_language)

\* the technical metadata of a record as the scanner scores it: the columns
\* _create_duplicate_group copies, and the height
FullMetadata(m, f) == FilesMetadata(m, f) @@ [height |-> Height(f)]

\* as RecommendedAction, but the language concern is checked on every
\* member, the best one included
RecommendedAction_AllMembers(ranked_files, cfg) ==
    LET quality_diff == ranked_files[1].quality_score
                           - ranked_files[Len(ranked_files)].quality_score
        concerns == {i \in 1..Len(ranked_files) : CheckLanguageConcern(ranked_files[i], cfg).concern}
    IN IF quality_diff < ManualReviewThreshold
       THEN [action |-> "manual_review", reason |-> "too_small"]
       ELSE IF quality_diff >= AutoApproveThreshold
       THEN IF concerns # {}
            THEN [action |-> "manual_review", reason |-> "english_audio"]
            ELSE [action |-> "auto_delete", reason |-> "clear_winner"]
       ELSE [action |-> "manual_review", reason |-> "moderate"]

\* lines 225-250 of _create_duplicate_group: recommended_action and the kind
\* of action_reason for a ranked list
RecommendedAction(ranked_files, cfg) ==
    LET best_file == ranked_files[1]
        worst_file == ranked_files[Len(ranked_files)]
        quality_diff == best_file.quality_score - worst_file.quality_score
        concerns == {i \in 2..Len(ranked_files) : CheckLanguageConcern(ranked_files[i], cfg).concern}
    IN IF quality_diff < ManualReviewThreshold
       THEN [action |-> "manual_review", reason |-> "too_small"]
       ELSE IF quality_diff >= AutoApproveThreshold
       THEN IF concerns # {}
            THEN [action |-> "manual_review",
                  reason |-> CheckLanguageConcern(
                                ranked_files[CHOOSE i \in concerns : \A j \in concerns : i <= j],
                                cfg).reason]
            ELSE [action |-> "auto_delete", reason |-> "clear_winner"]
       ELSE [action |-> "manual_review", reason |-> "moderate"]

\* sorted([f.id for f in files])
RECURSIVE SortedIds(_)
SortedIds(ids) ==
    IF ids = {} THEN <<>>
    ELSE LET least == CHOOSE i \in ids : \A j \in ids : i <= j
         IN <<least>> \o SortedIds(ids \ {least})

\* group_hash: the digest of the sorted ids joined by "|"; the joined string
\* is one-to-one with the sorted list, and so (for the model) is its digest
GroupHash(files) == SortedIds({files[i] : i \in DOMAIN files})

\* the attributes of the mapped class DuplicateMember (columns and relationships)
DuplicateMemberAttributes ==
    {"id", "group_id", "file_id", "rank", "recommended_action", "action_reason",
     "quality_score", "created_at", "duplicate_group", "media_file"}

\* the keyword arguments _create_duplicate_group gives to DuplicateMember(...)
DuplicateMemberKeywords ==
    {"duplicate_group_id", "media_file_id", "rank", "recommended_action", "action_reason"}

\* the constructor of a declarative class takes only keywords that name an
\* attribute of the class and raises TypeError for any other
ConstructorAccepts(attributes, keywords) == keywords \subseteq attributes

\* the member action of lines 294-303
MemberAction(rank, recommended_action) ==
    IF rank = 1 THEN "keep"
    ELSE IF recommended_action = "auto_delete" THEN "delete" ELSE "review"

\* a DuplicateMember
Member(file_id, rank, action) == [file_id |-> file_id, rank |-> rank, action |-> action]

\* a DuplicateGroup with its members
Group(group_hash, duplicate_type, confidence, member_count, verdict) ==
    [group_hash |-> group_hash, duplicate_type |-> duplicate_type, confidence |-> confidence,
     member_count |-> member_count, recommended_action |-> verdict.action,
     action_reason |-> verdict.reason, reviewed |-> FALSE, members |-> {}]

\* the outcome of one call of _create_duplicate_group: whether it raised, the
\* committed groups and media rows, the group it flushed (if any)
Created(raised, rows, m, flushed) ==
    [raised |-> raised, groups |-> rows, media |-> m, flushed |-> flushed]

\* DeduplicationService._create_duplicate_group(files, duplicate_type,
\* confidence) on the committed groups `rows` and media rows m
CreateDuplicateGroup(files, duplicate_type, confidence, rows, m, cfg) ==
    LET ranked_files == RankFiles([i \in DOMAIN files |-> FilesMetadata(m, files[i])])
        verdict == RecommendedAction(ranked_files, cfg)
        group_hash == GroupHash(files)
        existing_group == {g \in rows : g.group_hash = group_hash}
        group == Group(group_hash, duplicate_type, confidence, Len(files), verdict)
        members == {Member(ranked_files[i].id, ranked_files[i].rank,
                           MemberAction(ranked_files[i].rank, verdict.action)) :
                      i \in DOMAIN ranked_files}
    IN IF existing_group # {}
       THEN Created(FALSE, rows, m, {})
       ELSE IF ~ConstructorAccepts(DuplicateMemberAttributes, DuplicateMemberKeywords)
       THEN Created(TRUE, rows, m, {group})
       ELSE Created(FALSE, rows \cup {[group EXCEPT !.members = members]},
                    [f \in Files |->
                       IF \E i \in DOMAIN ranked_files : ranked_files[i].id = f
                       THEN [m[f] EXCEPT
                               !.is_duplicate = TRUE,
                               !.quality_score =
                                  ranked_files[CHOOSE i \in DOMAIN ranked_files :
                                                  ranked_files[i].id = f].quality_score]
                       ELSE m[f]],
                    {[group EXCEPT !.members = members]})

\* the files of a query in the order the database returns them
InOrder(order, ids) == SelectSeq(order, LAMBDA f : f \in ids)

\* the groups of find_exact_duplicates: the sets of two or more live files
\* with the same md5_hash
ExactGroups(m, flags) ==
    LET live == {f \in Files : ~flags[f] /\ m[f].md5_hash # NullText}
    IN {s \in {{g \in live : m[g].md5_hash = m[f].md5_hash} : f \in live} : Cardinality(s) > 1}

\* the grouping key of find_fuzzy_duplicates: title, year and (for tv) episode
FuzzyKey(m, f) == m[f].parsed_title

\* the key groups of find_fuzzy_duplicates with two or more live files
FuzzyKeyGroups(m, flags) ==
    LET live == {f \in Files : ~flags[f] /\ m[f].parsed_title # NullText}
    IN {s \in {{g \in live : FuzzyKey(m, g) = FuzzyKey(m, f)} : f \in live} : Cardinality(s) > 1}

\* as SimilarEnough, but a ratio on the threshold does not join
SimilarEnough_Above(similarity) == similarity > FuzzyMatchThreshold

\* similarity >= self.fuzzy_threshold
SimilarEnough(similarity) == similarity >= FuzzyMatchThreshold

\* _verify_fuzzy_matches, where ratio[a][b] is fuzz.ratio of the lower-cased
\* file names of a and b: every file not yet used opens a group with the
\* later unused files whose name is similar enough to its own; a group of
\* one file is dropped
RECURSIVE VerifyFuzzyMatchesWith(_, _)
VerifyFuzzyMatchesWith(files, ratio) ==
    IF files = <<>> THEN <<>>
    ELSE LET file1 == Head(files)
             similar == SelectSeq(Tail(files), LAMBDA f : SimilarEnough(ratio[file1][f]))
             others == SelectSeq(Tail(files), LAMBDA f : ~SimilarEnough(ratio[file1][f]))
         IN (IF similar # <<>> THEN << <<file1>> \o similar >> ELSE <<>>)
               \o VerifyFuzzyMatchesWith(others, ratio)

\* _verify_fuzzy_matches on the media files of the model
VerifyFuzzyMatches(files) ==
    VerifyFuzzyMatchesWith(files, [a \in Files |-> [b \in Files |->
                                      FuzzRatio(Filename(a), Filename(b))]])

\* the sum of a set of pairwise similarities
RECURSIVE SumRatios(_)
SumRatios(pairs) ==
    IF pairs = {} THEN 0
    ELSE LET pr == CHOOSE x \in pairs : TRUE
         IN FuzzRatio(Filename(pr[1]), Filename(pr[2])) + SumRatios(pairs \ {pr})

\* _calculate_fuzzy_confidence: the average pairwise similarity (in whole points)
FuzzyConfidence(files) ==
    LET pairs == {<<files[i], files[j]>> : i, j \in DOMAIN files} \cap
                    {pr \in Files \X Files : \E i, j \in DOMAIN files :
                        i < j /\ pr = <<files[i], files[j]>>}
    IN IF pairs = {} THEN 0 ELSE SumRatios(pairs) \div Cardinality(pairs)

\* the calls of _create_duplicate_group that one detection run makes, in
\* order: first those of find_exact_duplicates, then those of
\* find_fuzzy_duplicates; `order` is the order in which the queries return rows
RECURSIVE CallsOf(_, _, _)
CallsOf(sets, order, kind) ==
    IF sets = {} THEN <<>>
    ELSE LET s == CHOOSE x \in sets : \A y \in sets : InOrder(order, x)[1] <= InOrder(order, y)[1]
             verified == IF kind = "exact" THEN << InOrder(order, s) >>
                         ELSE VerifyFuzzyMatches(InOrder(order, s))
         IN [i \in DOMAIN verified |->
               [files |-> verified[i], duplicate_type |-> kind,
                confidence |-> IF kind = "exact" THEN 100 ELSE FuzzyConfidence(verified[i])]]
            \o CallsOf(sets \ {s}, order, kind)

\* the loop of a detection run over its calls; a call that raises ends the
\* request
RECURSIVE DetectLoop(_, _, _)
DetectLoop(calls, cfg, acc) ==
    IF calls = <<>> \/ acc.raised THEN acc
    ELSE LET call == Head(calls)
             r == CreateDuplicateGroup(call.files, call.duplicate_type, call.confidence,
                                       acc.groups, acc.media, cfg)
         IN DetectLoop(Tail(calls), cfg,
               [raised |-> r.raised, groups |-> r.groups, media |-> r.media,
                flushed |-> acc.flushed \cup r.flushed,
                exact |-> IF ~r.raised /\ call.duplicate_type = "exact"
                          THEN acc.exact + 1 ELSE acc.exact,
                fuzzy |-> IF ~r.raised /\ call.duplicate_type = "fuzzy"
                          THEN acc.fuzzy + 1 ELSE acc.fuzzy])

\* as FlagsAfterDetection, but the members of an auto_delete group other than
\* the first of its key are flagged deleted
FlagsAfterDetection_AutoDelete(flags, flushed) ==
    [f \in Files |->
       flags[f] \/ \E g \in flushed :
                     /\ g.recommended_action = "auto_delete"
                     /\ \E i \in 2..Len(g.group_hash) : g.group_hash[i] = f]

\* MediaFile.is_deleted after a detection run: _create_duplicate_group writes
\* is_duplicate and quality_score and nothing else of a media file
FlagsAfterDetection(flags, flushed) == flags

\* the orders in which a query without ORDER BY may return the media files
QueryOrders ==
    {order \in [1..Cardinality(Files) -> Files] : \A f \in Files : \E i \in DOMAIN order : order[i] = f}

\* POST /scan/deduplicate: run_deduplication (find_exact_duplicates, then
\* find_fuzzy_duplicates); an exception is answered with 500 and what the
\* session flushed is rolled back when get_db closes it
RunDeduplication ==
    /\ \E order \in QueryOrders :
         LET calls == CallsOf(ExactGroups(media, is_deleted), order, "exact")
                         \o CallsOf(FuzzyKeyGroups(media, is_deleted), order, "fuzzy")
             r == DetectLoop(calls, settings,
                             [raised |-> FALSE, groups |-> groups, media |-> media,
                              flushed |-> {}, exact |-> 0, fuzzy |-> 0])
         IN /\ groups' = r.groups
            /\ media' = r.media
            /\ det' = Detection(r.raised, r.flushed, r.exact, r.fuzzy)
            /\ is_deleted' = FlagsAfterDetection(is_deleted, r.flushed)
            /\ ret' = Ret("deduplicate", 0, ~r.raised, IF r.raised THEN "error" ELSE "")
    /\ ops' = {}
    /\ UNCHANGED <<pending, disk, now, txn, settings, inp, out>>

\* POST /duplicates/{group_id}/keep/{file_id}: mark_keeper (a group is named
\* by its group_hash)
MarkKeeper(group_hash, file_id) ==
    /\ LET found == {g \in groups : g.group_hash = group_hash}
       IN IF found = {} \/ \A g \in found : \A mb \in g.members : mb.file_id # file_id
          THEN /\ ret' = Ret("keep", file_id, FALSE, "not_found")
               /\ UNCHANGED groups
          ELSE /\ groups' = (groups \ found) \cup
                    {[g EXCEPT !.members = {[mb EXCEPT !.action = IF mb.file_id = file_id
                                                                 THEN "keep" ELSE "delete"] :
                                              mb \in g.members},
                               !.recommended_action = "manual_review",
                               !.action_reason = "user_keeper",
                               !.reviewed = TRUE] : g \in found}
               /\ ret' = Ret("keep", file_id, TRUE, "")
    /\ ops' = {}
    /\ UNCHANGED <<is_deleted, pending, disk, now, txn, media, settings, det, inp, out>>

\* DELETE /duplicates/{group_id}: dismiss_group
DismissGroup(group_hash) ==
    /\ LET found == {g \in groups : g.group_hash = group_hash}
       IN IF found = {}
          THEN /\ ret' = Ret("dismiss", 0, FALSE, "not_found")
               /\ UNCHANGED groups
          ELSE /\ groups' = (groups \ found) \cup
                    {[g EXCEPT !.recommended_action = "dismissed",
                               !.action_reason = "user_dismissed",
                               !.reviewed = TRUE] : g \in found}
               /\ ret' = Ret("dismiss", 0, TRUE, "")
    /\ ops' = {}
    /\ UNCHANGED <<is_deleted, pending, disk, now, txn, media, settings, det, inp, out>>

\* the group keys a request may name
GroupKeys == {SortedIds(s) : s \in {x \in SUBSET Files : Cardinality(x) > 1}}

InitDedup ==
    /\ StoreAt(AllOnShare)
    /\ media \in Inventories
    /\ settings = DefaultSettings
    /\ groups = {}
    /\ det = NoDetection
    /\ inp = <<>>
    /\ out = NoOutput

\* detection and review of duplicates next to single deletes
NextDedup ==
    \/ RunDeduplication
    \/ \E k \in GroupKeys : \E f \in Files : MarkKeeper(k, f)
    \/ \E k \in GroupKeys : DismissGroup(k)
    \/ \E f \in Files : DeleteMedia(f)

SpecDedup == InitDedup /\ [][NextDedup]_vars

\* ------------------------------------------------- fuzzy clustering
\* how many records a fuzzy partition holds at most
MaxPartition == 4

\* the similarities of the model: one point below the threshold, on it, and
\* that of equal names
Ratios == {FuzzyMatchThreshold - 1, FuzzyMatchThreshold, 100}

\* fuzz.ratio is symmetric, and 100 for a name and itself
RatioTable(n, v) ==
    [a \in 1..n |-> [b \in 1..n |->
        IF a = b THEN 100 ELSE IF a < b THEN v[<<a, b>>] ELSE v[<<b, a>>]]]

\* the pairs of different records of a partition of n records
Pairs(n) == {pr \in (1..n) \X (1..n) : pr[1] < pr[2]}

\* the partitions given to _verify_fuzzy_matches: records 1..n in input
\* order with the similarities of their names
PartitionOf(n, v) == <<[files |-> [i \in 1..n |-> i], ratio |-> RatioTable(n, v)]>>

InitFuzzy ==
    /\ StoreAt(AllOnShare)
    /\ media = [f \in Files |-> MediaRow("h1", "t", 10, << <<>>, <<>>, "" >>)]
    /\ settings = DefaultSettings
    /\ groups = {}
    /\ det = NoDetection
    /\ \E n \in 0..MaxPartition : \E v \in [Pairs(n) -> Ratios] : inp = PartitionOf(n, v)
    /\ out = NoOutput

\* a call of DeduplicationService._verify_fuzzy_matches(inp[1].files)
VerifyFuzzyMatchesCall ==
    /\ out.op = "none"
    /\ out' = [Output("verify_fuzzy_matches", 1, <<>>, [concern |-> FALSE, reason |-> ""])
                 EXCEPT !.clusters = IF Len(inp[1].files) < 2 THEN <<>>
                                     ELSE VerifyFuzzyMatchesWith(inp[1].files, inp[1].ratio)]
    /\ UNCHANGED <<is_deleted, pending, ops, disk, now, ret, txn, media, settings, groups, det, inp>>

NextFuzzy == VerifyFuzzyMatchesCall

SpecFuzzy == InitFuzzy /\ [][NextFuzzy]_vars

\* ------------------------------------------------- fuzzy partitions
\* A text is the sequence of its characters.
\* str.lower() on the characters of the model
LowerChar(c) ==
    IF c = "A" THEN "a" ELSE IF c = "S" THEN "s" ELSE IF c = "E" THEN "e" ELSE c

LowerText(text) == [i \in DOMAIN text |-> LowerChar(text[i])]

\* str(n) for n >= 0
RECURSIVE Digits(_)
Digits(n) ==
    LET digit(d) == <<"0", "1", "2", "3", "4", "5", "6", "7", "8", "9">>[d + 1]
    IN IF n < 10 THEN <<digit(n)>> ELSE Digits(n \div 10) \o <<digit(n % 10)>>

\* f"{n:02d}" for n >= 0
Pad2(n) == IF n < 10 THEN <<"0">> \o Digits(n) ELSE Digits(n)

\* f"{file.parsed_year or ''}"
YearText(parsed_year) == IF parsed_year \in {NULL, 0} THEN <<>> ELSE Digits(parsed_year)

\* the parsed columns of a MediaFile
Parsed(media_type, parsed_title, parsed_year, parsed_season, parsed_episode) ==
    [media_type |-> media_type, parsed_title |-> parsed_title, parsed_year |-> parsed_year,
     parsed_season |-> parsed_season, parsed_episode |-> parsed_episode]

\* formatting None with 02d raises TypeError
KeyRaises(file) ==
    file.media_type = "tv" /\ (file.parsed_season = NULL \/ file.parsed_episode = NULL)

\* as GroupingKey, but the episode is left out of the key of a tv record
GroupingKey_NoEpisode(file) ==
    IF file.media_type = "tv"
    THEN LowerText(file.parsed_title \o <<"|">> \o YearText(file.parsed_year)
                      \o <<"|", "S">> \o Pad2(file.parsed_season))
    ELSE LowerText(file.parsed_title \o <<"|">> \o YearText(file.parsed_year))

\* the grouping key of find_fuzzy_duplicates (lines 97-102) for a record
\* whose key can be formatted
GroupingKey(file) ==
    IF file.media_type = "tv"
    THEN LowerText(file.parsed_title \o <<"|">> \o YearText(file.parsed_year)
                      \o <<"|", "S">> \o Pad2(file.parsed_season)
                      \o <<"E">> \o Pad2(file.parsed_episode))
    ELSE LowerText(file.parsed_title \o <<"|">> \o YearText(file.parsed_year))

\* the values of grouped_files, in the order of the dict: the places of the
\* files of each key
RECURSIVE GroupedFiles(_, _)
GroupedFiles(places, files) ==
    IF places = <<>> THEN <<>>
    ELSE LET key == GroupingKey(files[Head(places)])
         IN <<SelectSeq(places, LAMBDA i : GroupingKey(files[i]) = key)>>
               \o GroupedFiles(SelectSeq(places, LAMBDA i : GroupingKey(files[i]) # key), files)

\* the verified groups of the key groups with two or more files
RECURSIVE VerifiedGroups(_, _)
VerifiedGroups(file_lists, ratio) ==
    IF file_lists = <<>> THEN <<>>
    ELSE (IF Len(Head(file_lists)) < 2 THEN <<>>
          ELSE VerifyFuzzyMatchesWith(Head(file_lists), ratio))
            \o VerifiedGroups(Tail(file_lists), ratio)

\* find_fuzzy_duplicates on the queried files up to the calls of
\* _create_duplicate_group: whether it raised, and the member lists it
\* passes on (places in the query result)
FindFuzzyDuplicates(files, ratio) ==
    IF \E i \in DOMAIN files : KeyRaises(files[i])
    THEN [raised |-> TRUE, lists |-> <<>>]
    ELSE [raised |-> FALSE,
          lists |-> VerifiedGroups(GroupedFiles([i \in DOMAIN files |-> i], files), ratio)]

\* the titles, years, seasons and episodes of the model; the scanner stores a
\* tv record when guessit found an episode, with or without a season
Titles == {<<"a">>, <<"A">>, <<"a", "|", "1">>}
ParsedRecords ==
    {Parsed("movie", t, y, NULL, NULL) : t \in Titles, y \in {NULL, 1}}
       \cup {Parsed("tv", t, y, se[1], se[2]) :
                t \in Titles, y \in {NULL, 1}, se \in {NULL, 1} \X {1, 12}}

\* three live records with a parsed title and equal file names
InitGrouping ==
    /\ StoreAt(AllOnShare)
    /\ media = [f \in Files |-> MediaRow("h1", "t", 10, << <<>>, <<>>, "" >>)]
    /\ settings = DefaultSettings
    /\ groups = {}
    /\ det = NoDetection
    /\ inp \in ParsedRecords \X ParsedRecords \X ParsedRecords
    /\ out = NoOutput

\* a call of find_fuzzy_duplicates on the files inp
FindFuzzyDuplicatesCall ==
    /\ out.op = "none"
    /\ LET r == FindFuzzyDuplicates(inp, [a \in DOMAIN inp |-> [b \in DOMAIN inp |-> 100]])
       IN out' = [Output("find_fuzzy_duplicates", 0, <<>>, [concern |-> FALSE, reason |-> ""])
                    EXCEPT !.clusters = r.lists,
                           !.reason = IF r.raised THEN "TypeError" ELSE ""]
    /\ UNCHANGED <<is_deleted, pending, ops, disk, now, ret, txn, media, settings, groups, det, inp>>

NextGrouping == FindFuzzyDuplicatesCall

SpecGrouping == InitGrouping /\ [][NextGrouping]_vars

\* ------------------------------------------------- staging roots
\* the directories a path setting can name
Roots == {"share", "mount", "local", "other"}

\* the deployment of a stage call: the path settings and the roots under
\* which mkdir succeeds
Deployments == {<<[paths |-> cfg, usable |-> u]>> : cfg \in PathSettings, u \in SUBSET Roots}

InitStaging ==
    /\ InitStore
    /\ media = [f \in Files |-> MediaRow("h1", "t", 10, << <<>>, <<>>, "" >>)]
    /\ settings = DefaultSettings
    /\ groups = {}
    /\ det = NoDetection
    /\ inp \in Deployments
    /\ out = NoOutput

\* DELETE /media/{file_id} in the deployment inp[1]
DeleteMediaIn(f) ==
    /\ IF PendingOf(pending, f) # {}
       THEN /\ ret' = Ret("stage", f, TRUE, "pending")
            /\ ops' = {}
            /\ UNCHANGED <<is_deleted, pending, disk>>
       ELSE \E moveOk \in BOOLEAN :
              LET r == StageUnder(TempDeleteRootsOf(inp[1].paths), f, Current,
                                  NewSession(is_deleted), now, inp[1].usable, moveOk)
              IN /\ disk' = r.st.disk
                 /\ pending' = r.st.pending
                 /\ is_deleted' = r.st.is_deleted
                 /\ ops' = r.ops
                 /\ ret' = IF r.raised = "none"
                           THEN Ret("stage", f, TRUE, "staged")
                           ELSE Ret("stage", f, FALSE, r.raised)
    /\ UNCHANGED <<now, ext>>

NextStaging == \E f \in Files : DeleteMediaIn(f)

SpecStaging == InitStaging /\ [][NextStaging]_vars

\* ------------------------------------------------------------------ claims
HasPending(f) == PendingOf(pending, f) # {}

\* C1: after a stage call returns for a record that had no PendingDeletion,
\* the record is flagged deleted and has exactly one PendingDeletion; a source
\* file that was resolved is gone from the source and lies at the row's
\* non-null staged path; with no source the staged path is null and the row
\* carries the source-missing note.
C1_StageEffect ==
    [][\A f \in Files :
         (ret'.op = "stage" /\ ret'.file = f /\ ret'.detail = "staged" /\ ~HasPending(f)) =>
            LET src == ResolveMediaPath(OrigPath(f), disk)
            IN /\ is_deleted'[f]
               /\ Cardinality(PendingOf(pending', f)) = 1
               /\ \A p \in PendingOf(pending', f) :
                    /\ src # NoPath =>
                         /\ src \notin DOMAIN disk'
                         /\ p.temp # NoPath
                         /\ p.temp \in DOMAIN disk'
                         /\ disk'[p.temp] = disk[src]
                         /\ ~p.source_missing
                    /\ src = NoPath => p.temp = NoPath /\ p.source_missing]_vars

C1_Witness ==
    /\ ret.op = "stage" /\ ret.detail = "staged"
    /\ \E p \in PendingOf(pending, ret.file) : p.temp \in DOMAIN disk
    /\ \E q \in pending : q.source_missing

C3_MoveFailureRolledBack ==
    [][/\ (ret'.op = "stage" /\ ret'.detail = "move") =>
             is_deleted' = is_deleted /\ pending' = pending
       /\ ret'.op = "batch" =>
             \A f \in ret'.failed_moves \ ret'.staged :
                /\ is_deleted'[f] = is_deleted[f]
                /\ PendingOf(pending', f) = PendingOf(pending, f)]_vars

\* C4: a restore that reports success leaves the record not flagged deleted
\* and without a PendingDeletion, whether or not a file was staged, and a
\* staged file lies at the original path again.
C4_RestoreRoundTrip ==
    [][\A f \in Files :
         (ret'.op = "restore" /\ ret'.file = f /\ ret'.ok) =>
            /\ ~is_deleted'[f]
            /\ PendingOf(pending', f) = {}
            /\ \A p \in PendingOf(pending, f) :
                 ResolvedTemp(p, disk) # NoPath => OrigPath(f) \in DOMAIN disk']_vars

\* the bytes of record c's media file exist somewhere
Kept(c, d) == \E p \in DOMAIN d : d[p] = c

\* C5: the file of a staged record is destroyed only by approve_deletion or
\* the expiry sweep acting on its own PendingDeletion: a staged path whose row
\* was not finalized holds the record's bytes, and the bytes of a record
\* disappear only in an approve of that record's row or in a sweep.
C5_OnlyPurgeDestroys ==
    /\ [](\A p \in pending :
            (p.temp # NoPath /\ p.deleted_at = NULL) =>
               p.temp \in DOMAIN disk /\ disk[p.temp] = p.file)
    /\ [][\A c \in Files :
            (Kept(c, disk) /\ ~Kept(c, disk')) =>
               \/ ret'.op = "approve" /\ ret'.file = c
               \/ ret'.op = "cleanup"]_vars

C5_Witness ==
    \E p, q \in pending :
       /\ p.file # q.file
       /\ p.temp \in DOMAIN disk /\ q.temp \in DOMAIN disk
       /\ p.temp.day = q.temp.day /\ p.temp.n # q.temp.n

\* C6: approve_deletion and restore_file take effect only on a row that is
\* not yet approved: an approved row is not approved again, its approval
\* timestamp is not overwritten, and it is not restored.
C6_ApprovedIsFinal ==
    [][/\ \A p \in pending : \A q \in pending' :
             (p.id = q.id /\ p.file = q.file /\ p.approved) => q.approved_at = p.approved_at
       /\ (ret'.op = "approve" /\ ret'.ok) =>
             \A p \in PendingOf(pending, ret'.file) : ~p.approved
       /\ (ret'.op = "restore" /\ ret'.detail = "restored") =>
             \A p \in PendingOf(pending, ret'.file) : ~p.approved]_vars

\* C7: after approve_deletion reports success the row is approved, carries its
\* approval and final-deletion timestamps, is no longer in the list of
\* pending deletions, and no file is left at its staged path; also when no
\* file was staged.
C7_ApproveFinalizes ==
    (ret.op = "approve" /\ ret.ok) =>
       \A p \in PendingOf(pending, ret.file) :
          /\ p.approved
          /\ p.approved_at # NULL
          /\ p.deleted_at # NULL
          /\ p \notin GetPendingDeletions(pending)
          /\ p.temp \notin DOMAIN disk

\* C8: when removing the staged file fails, approve_deletion reports failure,
\* logs a failed operation and leaves the row as it was: not approved, no
\* approval or final-deletion timestamp.
C8_ApproveFailureUntouched ==
    [][(ret'.op = "approve" /\ ret'.detail = "io_error") =>
          /\ ~ret'.ok
          /\ ArchiveOp(ret'.file, "permanent_delete", FALSE) \in ops'
          /\ pending' = pending
          /\ \A p \in PendingOf(pending', ret'.file) :
               ~p.approved /\ p.approved_at = NULL /\ p.deleted_at = NULL]_vars

\* C9: when moving the staged file back fails, restore_file reports failure
\* and changes no logical state: the row is there with the same staged path,
\* the record stays flagged deleted, the file is still at the staged path.
C9_RestoreFailureUntouched ==
    [][(ret'.op = "restore" /\ ret'.detail = "io_error") =>
          /\ ~ret'.ok
          /\ pending' = pending
          /\ is_deleted' = is_deleted
          /\ is_deleted'[ret'.file]
          /\ disk' = disk
          /\ \E p \in PendingOf(pending', ret'.file) : p.temp \in DOMAIN disk']_vars

C9_Witness ==
    /\ ret.op = "restore" /\ ret.detail = "io_error"
    /\ \E p \in PendingOf(pending, ret.file) : p.temp \in DOMAIN disk /\ ~p.approved

\* the rows older than the retention window that were never approved
Expired(rows, t) == {p \in rows : ~p.approved /\ t - p.staged_at > RetentionDays}

\* C10: a sweep without I/O failure removes exactly the never-approved rows
\* staged more than the retention window ago, with their staged files, leaves
\* every other row and file in place, and returns the number removed.
C10_SweepRemovesExpired ==
    [][(ret'.op = "cleanup" /\ ret'.detail = "") =>
          /\ pending' = pending \ Expired(pending, now)
          /\ ret'.count = Cardinality(Expired(pending, now))
          /\ DOMAIN disk' = DOMAIN disk \ {p.temp : p \in Expired(pending, now)}
          /\ \A q \in DOMAIN disk' : disk'[q] = disk[q]]_vars

C10_Witness ==
    /\ ret.op = "cleanup" /\ ret.detail = "" /\ ret.count >= 1
    /\ \E p \in pending : ~p.approved /\ now - p.staged_at = RetentionDays

\* C11: every attempt to move or delete a file, successful or not, in stage,
\* approve, restore or the expiry sweep, leaves a persisted ArchiveOperation
\* for the record concerned.
C11_EveryAttemptLogged ==
    [][/\ (/\ ret'.op \in {"stage", "approve", "restore"}
           /\ (disk' # disk \/ ret'.detail \in {"move", "io_error"})) =>
             \E o \in ops' : o.file = ret'.file
       /\ ret'.op = "batch" =>
             \A f \in ret'.failed_moves : ArchiveOp(f, "move_to_temp", FALSE) \in ops'
       /\ ret'.op = "cleanup" =>
             \A p \in pending :
                (p.temp \in DOMAIN disk /\ p.temp \notin DOMAIN disk') =>
                   \E o \in ops' : o.file = p.file]_vars

\* the request of thread th reported that it finalized, restored or swept
\* the row with this id
TookEffect(th, id) ==
    /\ th.pc = "done" /\ id \in th.seen
    /\ \/ th.op \in {"approve", "restore"} /\ th.ok
       \/ th.op = "cleanup" /\ id \in th.deleted

\* C12: two concurrent operations among approve, restore and the sweep on the
\* same PendingDeletion behave as if serialized: at most one of them reports
\* that it took effect, and a restore that reported success has the file
\* back at its original path, the record not flagged deleted, the row gone.
C12_SamePendingSerialized ==
    \A p, q \in Procs : \A id \in PendingIds :
       (p # q /\ txn[p].pc = "done" /\ txn[q].pc = "done") =>
          /\ ~(TookEffect(txn[p], id) /\ TookEffect(txn[q], id))
          /\ (txn[p].op = "restore" /\ txn[p].detail = "restored"
                /\ id \in txn[p].seen /\ id \in txn[q].seen
                /\ txn[q].op \in {"approve", "restore", "cleanup"}) =>
                \A row \in txn[p].cur :
                   /\ OrigPath(row.file) \in DOMAIN disk
                   /\ ~is_deleted[row.file]
                   /\ \A r \in pending : r.id # id

\* the rows whose staged file is still held for approval, restore or expiry
Staged(rows) == {r \in rows : r.temp # NoPath /\ r.deleted_at = NULL}

\* C13: stagings of distinct records with the same file name in the same
\* staging directory end with distinct staged paths, and the move of a
\* staging never replaces a file that is already there, whether the stagings
\* run one after another or interleave.
C13_DistinctStagedPaths ==
    /\ [](\A r1, r2 \in Staged(pending) : r1.file # r2.file => r1.temp # r2.temp)
    /\ [][\A p \in Procs :
            (txn[p].op = "stage" /\ txn[p].pc = "act" /\ disk' # disk) =>
               txn[p].path \notin DOMAIN disk]_vars

\* the dict that the last call of check_language_concern was given
Checked == inp[out.index]

\* C17: check_language_concern reports a concern exactly when require-English
\* audio is enabled and the member has English audio or English as dominant
\* audio language, or the foreign-film heuristic is trusted and the member has
\* no English audio but English subtitles.
C17_ConcernIffPolicy ==
    out.op = "check_language_concern" =>
       (out.concern <=>
          \/ /\ settings.require_english_audio
             /\ \/ HasLanguage(Checked.audio_languages, "eng")
                \/ Lower(Checked.dominant_audio_language) = "eng"
          \/ /\ settings.trust_foreign_film_heuristic
             /\ ~HasLanguage(Checked.audio_languages, "eng")
             /\ HasLanguage(Checked.subtitle_languages, "eng"))

\* C17 as stated: English audio is a concern whatever require-English audio
\* says; English as dominant language counts when the policy is enabled; the
\* foreign-film heuristic counts when it fires.
C17_AsStated ==
    out.op = "check_language_concern" =>
       (out.concern <=>
          \/ HasLanguage(Checked.audio_languages, "eng")
          \/ /\ settings.require_english_audio
             /\ Lower(Checked.dominant_audio_language) = "eng"
          \/ /\ settings.trust_foreign_film_heuristic
             /\ ~HasLanguage(Checked.audio_languages, "eng")
             /\ HasLanguage(Checked.subtitle_languages, "eng"))

C17_Witness ==
    /\ out.op = "check_language_concern"
    /\ ~settings.require_english_audio
    /\ HasLanguage(Checked.audio_languages, "eng")
    /\ ~out.concern

\* the list returned by the last call of rank_files
Ranked == out.ranked

\* C20: rank_files gives the members ranks that are a permutation of 1..n in
\* descending order of quality_score: each input dict appears once, the ranks
\* are 1..n in list order, rank 1 holds the maximum score, a higher score
\* never has a larger rank number, and equal scores keep their input order.
C20_RanksDescendingStable ==
    out.op = "rank_files" =>
       /\ Len(Ranked) = Len(inp)
       /\ \A i \in DOMAIN inp : \E j \in DOMAIN Ranked :
             /\ Ranked[j].id = inp[i].id
             /\ Ranked[j].quality_score = Enriched(inp[i]).quality_score
       /\ \A j \in DOMAIN Ranked : Ranked[j].rank = j
       /\ \A j \in DOMAIN Ranked : Ranked[1].quality_score >= Ranked[j].quality_score
       /\ \A j, k \in DOMAIN Ranked :
             Ranked[j].quality_score > Ranked[k].quality_score => Ranked[j].rank < Ranked[k].rank
       /\ \A j, k \in DOMAIN Ranked :
             (Ranked[j].quality_score = Ranked[k].quality_score /\ Ranked[j].id < Ranked[k].id)
                => Ranked[j].rank < Ranked[k].rank

C20_Witness ==
    /\ out.op = "rank_files" /\ Len(Ranked) = MaxMembers
    /\ Ranked[1].id = MaxMembers
    /\ \E j \in 1..(MaxMembers - 1) :
          Ranked[j].quality_score = Ranked[j + 1].quality_score /\ Ranked[j].id < Ranked[j + 1].id

\* the member sets a detection run over the present inventory finds
DetectedSets(m, flags) ==
    ExactGroups(m, flags) \cup
       {s \in FuzzyKeyGroups(m, flags) :
          \A f, g \in s : FuzzRatio(Filename(f), Filename(g)) >= FuzzyMatchThreshold}

\* C14: after a detection run there is exactly one DuplicateGroup for each
\* member set the run finds, with one member per file of the set, and a run
\* that finds only member sets that already have a group creates no group
\* and no member.
C14_DetectionIdempotent ==
    [][ret'.op = "deduplicate" =>
          /\ \A s \in DetectedSets(media, is_deleted) :
                /\ Cardinality({g \in groups' : g.group_hash = SortedIds(s)}) = 1
                /\ \A g \in groups' :
                      g.group_hash = SortedIds(s) => {mb.file_id : mb \in g.members} = s
          /\ (\A s \in DetectedSets(media, is_deleted) :
                 \E g \in groups : g.group_hash = SortedIds(s)) => groups' = groups]_vars

RankedScore(f) == Enriched(FilesMetadata(media, f)).quality_score

\* the files of a group key
MembersOf(group_hash) == {group_hash[i] : i \in DOMAIN group_hash}

\* best member's score minus worst member's score
Delta(s) ==
    LET hi == CHOOSE x \in {RankedScore(f) : f \in s} : \A g \in s : x >= RankedScore(g)
        lo == CHOOSE x \in {RankedScore(f) : f \in s} : \A g \in s : x <= RankedScore(g)
    IN hi - lo

\* some member below the best score raises a language concern
NonBestConcern(s) ==
    \E f \in s :
       /\ \E g \in s : RankedScore(g) > RankedScore(f)
       /\ CheckLanguageConcern(FilesMetadata(media, f), settings).concern

\* C16: a group newly materialized by detection is recommended auto_delete
\* exactly when best score minus worst score reaches the auto-approve
\* threshold and no non-best member raises a language concern; in every other
\* case it is recommended manual_review.
C16_VerdictByDelta ==
    ret.op = "deduplicate" =>
       \A g \in det.flushed :
          LET s == MembersOf(g.group_hash)
          IN g.recommended_action =
                IF Delta(s) >= AutoApproveThreshold /\ ~NonBestConcern(s)
                THEN "auto_delete" ELSE "manual_review"

C16_Witness ==
    /\ ret.op = "deduplicate"
    /\ \E g \in det.flushed :
          /\ g.recommended_action = "auto_delete"
          /\ Delta(MembersOf(g.group_hash)) = 60
          /\ \E f \in MembersOf(g.group_hash) :
                CheckLanguageConcern(FilesMetadata(media, f), settings).concern

\* C18: in every group as materialized by detection each file of the member
\* set has a member; the rank-1 member's action is keep, every other member's
\* action is delete in an auto_delete group and review otherwise.
C18_MemberActionsMirrorVerdict ==
    ret.op = "deduplicate" =>
       \A g \in det.flushed :
          /\ {mb.file_id : mb \in g.members} = MembersOf(g.group_hash)
          /\ \E mb \in g.members : mb.rank = 1
          /\ \A mb \in g.members :
                mb.action = IF mb.rank = 1 THEN "keep"
                            ELSE IF g.recommended_action = "auto_delete" THEN "delete"
                            ELSE "review"

\* C19: a detection run, whatever its verdict, changes no deleted-flag, no
\* PendingDeletion and no file, and a deleted-flag becomes true only in a
\* stage call for that record.
C19_DetectionOnlyClassifies ==
    [][/\ ret'.op = "deduplicate" =>
             is_deleted' = is_deleted /\ pending' = pending /\ disk' = disk
       /\ \A f \in Files :
             (~is_deleted[f] /\ is_deleted'[f]) => ret'.op = "stage" /\ ret'.file = f]_vars

C19_Witness ==
    /\ ret.op = "deduplicate"
    /\ \E g \in det.flushed : g.recommended_action = "auto_delete"
    /\ \A f \in Files : ~is_deleted[f]
    /\ pending = {}

\* the live records that hold the content hash h
HoldersOf(h) == {f \in Files : ~is_deleted[f] /\ media[f].md5_hash = h}

\* the content hashes of the inventory
Hashes == {media[f].md5_hash : f \in Files} \ {NullText}

\* C21: after a detection run every content hash shared by at least two
\* non-deleted records has an exact group with exactly those records as
\* members and confidence 100, and every exact group the run created is the
\* group of such a hash: no record without a hash, no deleted record and no
\* record that holds its hash alone is in it.
C21_ExactGroupsByHash ==
    ret.op = "deduplicate" =>
       /\ \A h \in Hashes :
             Cardinality(HoldersOf(h)) >= 2 =>
                \E g \in groups \cup det.flushed :
                   /\ g.duplicate_type = "exact" /\ g.confidence = 100
                   /\ {mb.file_id : mb \in g.members} = HoldersOf(h)
       /\ \A g \in det.flushed :
             g.duplicate_type = "exact" =>
                \E h \in Hashes :
                   /\ Cardinality(HoldersOf(h)) >= 2
                   /\ MembersOf(g.group_hash) = HoldersOf(h)
                   /\ {mb.file_id : mb \in g.members} \subseteq HoldersOf(h)

\* the dict given to calculate_quality_score and the value it returned
Meta == inp[1]
Score == out.score

\* C22: calculate_quality_score returns an integer in [0, 200] for every
\* metadata input, whatever the integers of height, bitrate, channel and
\* track counts, missing fields included.
C22_ScoreInRange ==
    out.op = "calculate_quality_score" => Score \in 0..200

\* the value of a key of the scored dict, or the default of its get
Field(key, default) == Get(Meta, key, default)

\* the resolution bands of the scoring table for a known height
BandScore(height) ==
    IF height >= 2160 THEN 100 ELSE IF height >= 1080 THEN 75
    ELSE IF height >= 720 THEN 50 ELSE IF height >= 480 THEN 25 ELSE 10

\* the ideal bitrates of the scoring table
BandIdeal(height) ==
    IF height >= 2160 THEN 50000 ELSE IF height >= 1080 THEN 10000
    ELSE IF height >= 720 THEN 5000 ELSE IF height >= 480 THEN 2500 ELSE 1000

\* the codec points of the scoring table for the codec names of the model
TableCodec ==
    LET c == Field("video_codec", "")
    IN IF c = "HEVC" THEN 20 ELSE IF c = "h264" THEN 15
       ELSE IF c = "vp9" THEN 18 ELSE IF c = "av1" THEN 22 ELSE 0

\* audio channel, audio track and HDR points of the scoring table
TableAudio == IF Field("audio_channels", 2) >= 5 THEN 15 ELSE 10
TableTracks ==
    LET t == Field("audio_track_count", 1)
    IN IF t > 1 THEN Min(3 * (t - 1), 10) ELSE 0
TableHdr == IF Field("hdr_type", "SDR") \in {"HDR10", "HDR10+", "Dolby Vision", "HLG"} THEN 15 ELSE 0

Deployment == inp[1]

\* the root the order "configured path, its image under the mount, local
\* fallback" gives when mkdir succeeds under the roots of `usable`
FirstUsableRoot(cfg, usable) ==
    IF cfg.nas_temp_delete_path \in usable THEN cfg.nas_temp_delete_path
    ELSE IF cfg.nas_temp_delete_path = "share" /\ cfg.nas_mount_path \in usable \ {""}
    THEN cfg.nas_mount_path
    ELSE IF cfg.local_temp_delete_path \in usable \ {""} THEN cfg.local_temp_delete_path
    ELSE "none"

\* C24: the candidate roots are the configured path, then its image under
\* the mount, then the local fallback, each once; a stage call uses the first
\* of them under which the directory can be made, and fails to prepare only
\* when none can, leaving deleted-flags, PendingDeletions and files as they were.
C24_FirstUsableRoot ==
    [][LET roots == TempDeleteRootsOf(Deployment.paths)
           first == FirstUsableRoot(Deployment.paths, Deployment.usable)
       IN /\ \A i, j \in DOMAIN roots : roots[i] = roots[j] => i = j
          /\ roots[1] = Deployment.paths.nas_temp_delete_path
          /\ (ret'.op = "stage" /\ ret'.detail # "pending") =>
                IF first = "none"
                THEN /\ ret'.detail = "prepare"
                     /\ is_deleted' = is_deleted /\ pending' = pending /\ disk' = disk
                ELSE /\ ret'.detail # "prepare"
                     /\ \A p \in pending' \ pending : p.temp # NoPath => p.temp.root = first]_vars

\* a stage call fell back to the local root
C24_Witness ==
    /\ ret.op = "stage" /\ ret.detail = "staged"
    /\ Deployment.paths = DefaultPaths
    /\ Deployment.usable = {"local", "other"}
    /\ \E p \in pending : p.temp # NoPath /\ p.temp.root = "local"

\* a stage call found no usable root
C24_WitnessNoRoot ==
    /\ ret.op = "stage" /\ ret.detail = "prepare"
    /\ Deployment.paths.local_temp_delete_path = "share"
    /\ Deployment.usable = {"local"}

\* the partition given to _verify_fuzzy_matches and the clusters it returned
Partition == inp[1]
Clusters == out.clusters

\* the seed that claims the record at place j of the partition: the first
\* earlier record that no seed claimed and whose name is similar enough to
\* that of j; 0 when there is none
Claimant[j \in 1..MaxPartition + 1] ==
    LET seeds == {i \in 1..(j - 1) :
                    /\ Claimant[i] = 0
                    /\ Partition.ratio[Partition.files[i]][Partition.files[j]]
                          >= FuzzyMatchThreshold}
    IN IF seeds = {} THEN 0 ELSE CHOOSE i \in seeds : \A k \in seeds : i <= k

\* C25: clustering is greedy in input order: the first unclaimed record seeds
\* a cluster and absorbs exactly the later unclaimed records whose similarity
\* to the seed is at least the threshold (85 joins, 84 does not); every
\* record is in at most one cluster, and a cluster has at least two records.
C25_GreedyClusters ==
    out.op = "verify_fuzzy_matches" =>
       LET n == Len(Partition.files)
           place(f) == CHOOSE i \in 1..n : Partition.files[i] = f
       IN /\ \A c \in DOMAIN Clusters :
                /\ Len(Clusters[c]) >= 2
                /\ Claimant[place(Clusters[c][1])] = 0
                /\ {place(Clusters[c][k]) : k \in 2..Len(Clusters[c])}
                      = {j \in 1..n : Claimant[j] = place(Clusters[c][1])}
                /\ \A k \in 1..(Len(Clusters[c]) - 1) :
                      place(Clusters[c][k]) < place(Clusters[c][k + 1])
          /\ \A j \in 1..n :
                Claimant[j] # 0 => \E c \in DOMAIN Clusters : Clusters[c][1] = Partition.files[Claimant[j]]
          /\ \A c, d \in DOMAIN Clusters :
                \A k \in DOMAIN Clusters[c], l \in DOMAIN Clusters[d] :
                   Clusters[c][k] = Clusters[d][l] => c = d /\ k = l

\* the second record joins the first on the threshold, the third is one
\* point short of the first and stays alone although it equals the second
C25_Witness ==
    /\ out.op = "verify_fuzzy_matches"
    /\ Len(Partition.files) = 3
    /\ Partition.ratio[1][2] = FuzzyMatchThreshold
    /\ Partition.ratio[1][3] = FuzzyMatchThreshold - 1
    /\ Partition.ratio[2][3] = 100
    /\ Clusters = << <<1, 2>> >>

\* the case-folded title of a record
FoldedTitle(file) == [i \in DOMAIN file.parsed_title |->
                         IF file.parsed_title[i] = "A" THEN "a" ELSE file.parsed_title[i]]

\* (title, year, season, episode) for an episodic record, (title, year) for
\* every other record
StatedKey(file) ==
    IF file.media_type = "tv"
    THEN <<"tv", FoldedTitle(file), file.parsed_year, file.parsed_season, file.parsed_episode>>
    ELSE <<"other", FoldedTitle(file), file.parsed_year>>

\* C26: the members of a fuzzy group share the grouping key (title, year,
\* season, episode) case-folded for tv records and (title, year) case-folded
\* for the others; records whose keys differ, and a tv record and another
\* record, are never in the same group.
C26_GroupSharesKey ==
    out.op = "find_fuzzy_duplicates" =>
       \A c \in DOMAIN Clusters :
          \A k, l \in DOMAIN Clusters[c] :
             /\ StatedKey(inp[Clusters[c][k]]) = StatedKey(inp[Clusters[c][l]])
             /\ inp[Clusters[c][k]].media_type = "tv" <=> inp[Clusters[c][l]].media_type = "tv"

\* two tv records of the same episode whose titles differ in case form a
\* group that a third record with another episode is not in
C26_Witness ==
    /\ out.op = "find_fuzzy_duplicates"
    /\ Clusters = << <<1, 3>> >>
    /\ inp[1] = Parsed("tv", <<"a">>, 1, 1, 1)
    /\ inp[3] = Parsed("tv", <<"A">>, 1, 1, 1)
    /\ inp[2] = Parsed("tv", <<"a">>, 1, 1, 12)

\* C30: find_fuzzy_duplicates completes and returns its groups for every
\* inventory of live records with a parsed title, also when a tv record has
\* no season or episode number; the other records' groups are still found.
C30_FuzzyCompletes ==
    out.op = "find_fuzzy_duplicates" =>
       /\ out.reason # "TypeError"
       /\ \A i, j \in DOMAIN inp :
             (i # j /\ ~KeyRaises(inp[i]) /\ ~KeyRaises(inp[j])
                /\ StatedKey(inp[i]) = StatedKey(inp[j])) =>
                \E c \in DOMAIN Clusters :
                   \E k, l \in DOMAIN Clusters[c] : Clusters[c][k] = i /\ Clusters[c][l] = j

\* C27: in every committed state every PendingDeletion belongs to a record
\* that is flagged deleted, and a record that is not flagged deleted has no
\* PendingDeletion.
C27_PendingImpliesDeleted ==
    /\ \A p \in pending : is_deleted[p.file]
    /\ \A f \in Files : ~is_deleted[f] => PendingOf(pending, f) = {}

\* the members of a group whose action is keep
Keepers(g) == {mb \in g.members : mb.action = "keep"}

\* C28: every duplicate group, as materialized and after keeper selections
\* and dismissals, has at least two members and exactly one member with
\* action keep: the rank-1 member at creation, the selected member after a
\* keeper selection, which sets every other member to delete and marks the
\* group reviewed; a selection naming a file outside the group changes nothing.
C28_OneKeeper ==
    [][/\ \A g \in groups' \cup det'.flushed :
             Cardinality(g.members) >= 2 /\ Cardinality(Keepers(g)) = 1
       /\ ret'.op = "deduplicate" =>
             \A g \in det'.flushed : \A mb \in Keepers(g) : mb.rank = 1
       /\ (ret'.op = "keep" /\ ret'.ok) =>
             \E g \in groups' :
                /\ g.reviewed
                /\ \E mb \in g.members : mb.file_id = ret'.file
                /\ \A mb \in g.members :
                      mb.action = IF mb.file_id = ret'.file THEN "keep" ELSE "delete"
       /\ (ret'.op = "keep" /\ ~ret'.ok) => groups' = groups]_vars

\* the score a member is to carry: the stored one, or for a stored score
\* that is absent or 0 the score of the record's full technical metadata
DueScore(f) ==
    IF media[f].quality_score \notin {NULL, 0} THEN media[f].quality_score
    ELSE CalculateQualityScore(FullMetadata(media, f))

\* C29: when a group is materialized every member is marked is_duplicate
\* and persists its stored score, or for an absent or zero stored score the
\* value of calculate_quality_score on its full technical metadata, height
\* included; the ranks follow these persisted scores.
C29_PersistedScores ==
    [][ret'.op = "deduplicate" =>
          \A g \in det'.flushed :
             /\ \A f \in MembersOf(g.group_hash) :
                   /\ media'[f].is_duplicate
                   /\ media'[f].quality_score = DueScore(f)
             /\ \A a, b \in g.members :
                   a.rank < b.rank =>
                      media'[a.file_id].quality_score >= media'[b.file_id].quality_score]_vars
====
